---------------------------- MODULE Spec2Model ----------------------------
(***************************************************************************)
(* The recommendation engine of edunavigator: the Recommendation model     *)
(* (models/Recommendation.js), the recommendation controller               *)
(* (controllers/recommendationController.js) and RecommendationService     *)
(* (services/recommendationService.js), over a small catalog of exams,     *)
(* opportunities and users.                                                *)
(*                                                                         *)
(* Numbers.  Scores are JavaScript doubles in the code.  The model keeps    *)
(* them as exact fractions [n, d]; 0/0 is NaN as in JavaScript, every       *)
(* comparison with NaN is false.  The threshold comparisons of the code     *)
(* (> 0.6, > 0.7) decide the same way on doubles and on exact fractions     *)
(* for the interest ratios k/n the model draws.                             *)
(*                                                                         *)
(* Strings.  A string is a tuple of one-character strings, so that          *)
(* toLowerCase() and String.prototype.includes() are computed.              *)
(***************************************************************************)
EXTENDS Integers, Sequences, FiniteSets, TLC

VARIABLES
    users,      \* the User collection: user id -> document
    exams,      \* the Exam collection, in natural order
    opps,       \* the Opportunity collection, in natural order
    recs,       \* the Recommendation collection, in natural (insertion) order
    nextId,     \* the next Recommendation _id
    now,        \* the clock (new Date()), in days
    resp,       \* the last response sent, with the request that caused it
    runLog,     \* the learners of the generation runs completed so far
    mergeIn,    \* the strategy outputs handed to the merge step
    runs,       \* the generation runs in progress, each at one of its awaits
    budget      \* how many requests and clock steps are left

vars ==
    <<users, exams, opps, recs, nextId, now, resp, runLog, mergeIn, runs, budget>>

-----------------------------------------------------------------------------
(* Bounds of the model *)

MaxSteps == 3          \* requests and clock steps in a behaviour of the store
MaxInterests == 2      \* declared interests of the learner a scorer is applied to
MaxRuleList == 2       \* entries of the rule-based list handed to the merge step
MaxOtherList == 1      \* entries of each other list handed to the merge step
MaxRecords == 2        \* stored records when a list request is answered

-----------------------------------------------------------------------------
(* Numbers: exact fractions, NaN and the operations the code uses *)

RECURSIVE GCD(_, _)
GCD(a, b) == IF b = 0 THEN a ELSE GCD(b, a % b)

NaN == [n |-> 0, d |-> 0]

IsNaN(x) == x.d = 0

Frac(a, b) ==
    IF b = 0 THEN NaN
    ELSE LET g == GCD(a, b) IN
         IF g = 0 THEN [n |-> 0, d |-> 1] ELSE [n |-> a \div g, d |-> b \div g]

Num(k) == [n |-> k, d |-> 1]

\* x + y
Plus(x, y) ==
    IF IsNaN(x) \/ IsNaN(y) THEN NaN
    ELSE Frac(x.n * y.d + y.n * x.d, x.d * y.d)

\* x * y
Times(x, y) ==
    IF IsNaN(x) \/ IsNaN(y) THEN NaN ELSE Frac(x.n * y.n, x.d * y.d)

\* x / y for x, y >= 0 ; 0 / 0 is NaN; the code never divides a positive
\* number by zero (a match count never exceeds the length it is divided by)
Over(x, y) ==
    IF IsNaN(x) \/ IsNaN(y) \/ y.n = 0 THEN NaN
    ELSE Frac(x.n * y.d, x.d * y.n)

\* x > y ; false when either is NaN
Gt(x, y) == ~IsNaN(x) /\ ~IsNaN(y) /\ x.n * y.d > y.n * x.d

\* x >= y ; false when either is NaN
Geq(x, y) == ~IsNaN(x) /\ ~IsNaN(y) /\ x.n * y.d >= y.n * x.d

\* Math.min(x, y)
MathMin(x, y) ==
    IF IsNaN(x) \/ IsNaN(y) THEN NaN ELSE IF Gt(x, y) THEN y ELSE x

Zero == Num(0)
One == Num(1)

-----------------------------------------------------------------------------
(* Strings *)

Range(arr) == {arr[i] : i \in DOMAIN arr}

UpperCase == <<"A", "B", "C", "D", "E", "F", "G", "H", "I", "J", "K", "L", "M",
               "N", "O", "P", "Q", "R", "S", "T", "U", "V", "W", "X", "Y", "Z">>
LowerCase == <<"a", "b", "c", "d", "e", "f", "g", "h", "i", "j", "k", "l", "m",
               "n", "o", "p", "q", "r", "s", "t", "u", "v", "w", "x", "y", "z">>

LowerOf ==
    [c \in Range(UpperCase) |->
        LowerCase[CHOOSE i \in DOMAIN UpperCase : UpperCase[i] = c]]

LowerChar(c) == IF c \in DOMAIN LowerOf THEN LowerOf[c] ELSE c

\* String.prototype.toLowerCase
toLowerCase(s) == [i \in DOMAIN s |-> LowerChar(s[i])]

\* String.prototype.includes: t occurs in s as a substring
StrIncludes(s, t) ==
    \E i \in 0..(Len(s) - Len(t)) : SubSeq(s, i + 1, i + Len(t)) = t

\* a.toLowerCase().includes(b.toLowerCase())
IncludesIgnoreCase(a, b) == StrIncludes(toLowerCase(a), toLowerCase(b))

\* Array.prototype.includes on an array of primitive values
ArrIncludes(arr, x) == \E i \in DOMAIN arr : arr[i] = x

\* the first k elements: Query.limit(k), Array.prototype.slice(0, k)
Take(arr, k) == SubSeq(arr, 1, IF Len(arr) < k THEN Len(arr) ELSE k)

-----------------------------------------------------------------------------
(* Documents *)

\* the paths of examSchema: there is no application_count among them
ExamSchemaPaths ==
    {"_id", "exam_name", "subjects", "exam_type", "events", "is_active"}

\* the paths of opportunitySchema the engine reads
OpportunitySchemaPaths ==
    {"_id", "title", "type", "organizer", "domain", "company",
     "degree_required", "year_of_study", "deadline", "skills_required",
     "is_active", "application_count"}

\* whether doc.path is defined on a hydrated document of a strict schema: a
\* field that the schema does not declare has no getter and reads as
\* undefined, whatever the stored document holds; a path the document does
\* not hold is absent from the record
HasProp(doc, path, schemaPaths) == path \in schemaPaths /\ path \in DOMAIN doc

\* doc.path is a truthy string: defined and not empty
TruthyString(doc, path, schemaPaths) ==
    HasProp(doc, path, schemaPaths) /\ doc[path] # <<>>

Reason(text, w) == [reason |-> text, weight |-> w]

\* one element of the array a scorer returns, later a Recommendation
\* document's fields
Rec(user, type, id, score, algorithm, reasons) ==
    [user_id |-> user._id, entity_type |-> type, entity_id |-> id,
     score |-> score, algorithm_used |-> algorithm,
     recommendation_reasons |-> reasons]

-----------------------------------------------------------------------------
(* Candidate Source queries *)

\* Exam.find({is_active: true, 'events.date': {$gt: new Date()}})
ActiveExams ==
    SelectSeq(exams, LAMBDA e :
        e.is_active /\ \E i \in DOMAIN e.events : e.events[i] > now)

\* Opportunity.find({is_active: true, deadline: {$gt: new Date()}})
ActiveOpportunities ==
    SelectSeq(opps, LAMBDA o : o.is_active /\ o.deadline > now)

-----------------------------------------------------------------------------
(* Rule-Based scorer: RecommendationService.generateRuleBasedRecommendations *)

Physics == <<"P", "h", "y", "s", "i", "c", "s">>
Chemistry == <<"C", "h", "e", "m", "i", "s", "t", "r", "y">>
Maths == <<"M", "a", "t", "h", "s">>
Biology == <<"B", "i", "o", "l", "o", "g", "y">>
AnyDegree == <<"A", "n", "y">>

scienceSubjects == <<Physics, Chemistry, Maths, Biology>>

RuleThreshold == Frac(6, 10)
ExamPopularityThreshold == 100
OpportunityPopularityThreshold == 50
RuleExamLimit == 50
RuleOpportunityLimit == 100

\* user.preferences.interests.filter(interest => exam_name or a subject
\* contains it, ignoring case)
ExamMatchingInterests(user, exam) ==
    SelectSeq(user.preferences.interests, LAMBDA interest :
        \/ IncludesIgnoreCase(exam.exam_name, interest)
        \/ \E i \in DOMAIN exam.subjects :
               IncludesIgnoreCase(exam.subjects[i], interest))

\* the interest term without the two length tests: 0 / 0 is NaN
InterestTermUnguarded(matchingInterests, interests, weight) ==
    Times(Frac(Len(matchingInterests), Len(interests)), weight)

\* an interest term that is added only when every declared interest matches
InterestTermAllOrNothing(matchingInterests, interests, weight) ==
    IF Len(interests) > 0 /\ Len(matchingInterests) = Len(interests)
    THEN weight
    ELSE Zero

\* if (interests.length > 0) { if (matchingInterests.length > 0)
\*     score += (matchingInterests.length / interests.length) * weight }
InterestTerm(matchingInterests, interests, weight) ==
    IF Len(interests) > 0 /\ Len(matchingInterests) > 0
    THEN Times(Frac(Len(matchingInterests), Len(interests)), weight)
    ELSE Zero

\* the body of the loop over exams, up to the threshold test: the
\* accumulated score and the reasons
RuleExamScore(user, exam) ==
    LET matchingSubjects ==
            SelectSeq(exam.subjects, LAMBDA subject :
                \E j \in DOMAIN scienceSubjects :
                    IncludesIgnoreCase(subject, scienceSubjects[j]))
        stream == user.school_info.stream = "Science" /\ Len(matchingSubjects) > 0
        matchingInterests == ExamMatchingInterests(user, exam)
        interest == Len(user.preferences.interests) > 0 /\ Len(matchingInterests) > 0
        \* undefined > 100 is false
        popular == /\ HasProp(exam, "application_count", ExamSchemaPaths)
                   /\ exam.application_count > ExamPopularityThreshold
        \* score += 0.3 ; score += (matching / declared) * 0.2 ; score += 0.1,
        \* each only under its condition (a term of 0 leaves the score as it is)
        streamTerm == IF stream THEN Frac(3, 10) ELSE Zero
        interestTerm ==
            InterestTerm(matchingInterests, user.preferences.interests, Frac(2, 10))
        popularTerm == IF popular THEN Frac(1, 10) ELSE Zero
        s3 == Plus(Plus(Plus(Frac(1, 2), streamTerm), interestTerm), popularTerm)
    IN  [score |-> s3,
         reasons |->
            (IF stream THEN <<Reason("Matches your Science stream", Frac(3, 10))>> ELSE <<>>)
            \o (IF interest THEN <<Reason("Aligns with your interests", Frac(2, 10))>> ELSE <<>>)
            \o (IF popular THEN <<Reason("Popular among students", Frac(1, 10))>> ELSE <<>>)]

\* user.preferences.interests.filter(interest => title, a skill or a domain
\* contains it, ignoring case)
OpportunityMatchingInterests(user, opportunity) ==
    SelectSeq(user.preferences.interests, LAMBDA interest :
        \/ IncludesIgnoreCase(opportunity.title, interest)
        \/ \E i \in DOMAIN opportunity.skills_required :
               IncludesIgnoreCase(opportunity.skills_required[i], interest)
        \/ \E i \in DOMAIN opportunity.domain :
               IncludesIgnoreCase(opportunity.domain[i], interest))

\* the body of the loop over opportunities, up to the threshold test
RuleOpportunityScore(user, opportunity) ==
    LET matchingInterests == OpportunityMatchingInterests(user, opportunity)
        interest == Len(user.preferences.interests) > 0 /\ Len(matchingInterests) > 0
        internship == opportunity.type = "internship"
        degree == internship /\
                  (\/ ArrIncludes(opportunity.degree_required, user.education.degree)
                   \/ ArrIncludes(opportunity.degree_required, AnyDegree))
        year == internship /\
                (\/ ArrIncludes(opportunity.year_of_study, user.education.year)
                 \/ ArrIncludes(opportunity.year_of_study, 0))
        popular == /\ HasProp(opportunity, "application_count", OpportunitySchemaPaths)
                   /\ opportunity.application_count > OpportunityPopularityThreshold
        interestTerm ==
            InterestTerm(matchingInterests, user.preferences.interests, Frac(3, 10))
        degreeTerm == IF degree THEN Frac(2, 10) ELSE Zero
        yearTerm == IF year THEN Frac(2, 10) ELSE Zero
        popularTerm == IF popular THEN Frac(1, 10) ELSE Zero
        s4 == Plus(Plus(Plus(Plus(Frac(1, 2), interestTerm), degreeTerm), yearTerm),
                   popularTerm)
    IN  [score |-> s4,
         reasons |->
            (IF interest THEN <<Reason("Matches your interests", Frac(3, 10))>> ELSE <<>>)
            \o (IF degree THEN <<Reason("Suitable for your degree", Frac(2, 10))>> ELSE <<>>)
            \o (IF year THEN <<Reason("Perfect for your year", Frac(2, 10))>> ELSE <<>>)
            \o (IF popular THEN <<Reason("Popular opportunity", Frac(1, 10))>> ELSE <<>>)]

\* the threshold test with >= in place of >
RuleEmitsGeq(score) == Geq(score, RuleThreshold)

\* if (score > 0.6)
RuleEmits(score) == Gt(score, RuleThreshold)

\* the loop over the candidates: each candidate whose score passes the
\* threshold is pushed, with Math.min(score, 1.0)
RECURSIVE RuleExamLoop(_, _)
RuleExamLoop(user, pool) ==
    IF pool = <<>> THEN <<>>
    ELSE LET exam == Head(pool)
             r == RuleExamScore(user, exam)
         IN  (IF RuleEmits(r.score)
              THEN <<Rec(user, "exam", exam._id, MathMin(r.score, One),
                         "rule_based", r.reasons)>>
              ELSE <<>>) \o RuleExamLoop(user, Tail(pool))

RECURSIVE RuleOpportunityLoop(_, _)
RuleOpportunityLoop(user, pool) ==
    IF pool = <<>> THEN <<>>
    ELSE LET opportunity == Head(pool)
             r == RuleOpportunityScore(user, opportunity)
         IN  (IF RuleEmits(r.score)
              THEN <<Rec(user, "opportunity", opportunity._id,
                         MathMin(r.score, One), "rule_based", r.reasons)>>
              ELSE <<>>) \o RuleOpportunityLoop(user, Tail(pool))

generateRuleBasedRecommendations(user) ==
    IF user.role = "school"
    THEN RuleExamLoop(user, Take(ActiveExams, RuleExamLimit))
    ELSE RuleOpportunityLoop(user, Take(ActiveOpportunities, RuleOpportunityLimit))

-----------------------------------------------------------------------------
(* Content-Based scorer *)

ContentThreshold == Frac(7, 10)
SimilarExamLimit == 20
SimilarOpportunityLimit == 30

\* [...(user.saved_hackathons || []), ...(user.saved_internships || [])]
SavedOpportunities(user) == user.saved_hackathons \o user.saved_internships

\* RecommendationService.analyzeUserPreferences: the sets of subjects, exam
\* types, skills, domains, companies and organizers of the saved items
analyzeUserPreferences(user) ==
    LET savedE == {exams[i] : i \in {j \in DOMAIN exams :
                        ArrIncludes(user.saved_exams, exams[j]._id)}}
        savedO == {opps[i] : i \in {j \in DOMAIN opps :
                        ArrIncludes(SavedOpportunities(user), opps[j]._id)}}
    IN  [subjects |-> UNION {Range(e.subjects) : e \in savedE},
         examTypes |-> {e.exam_type : e \in savedE},
         skills |-> UNION {Range(o.skills_required) : o \in savedO},
         domains |-> UNION {Range(o.domain) : o \in savedO},
         companies |-> {o.company : o \in {x \in savedO :
                            TruthyString(x, "company", OpportunitySchemaPaths)}},
         organizers |-> {o.organizer : o \in {x \in savedO :
                            TruthyString(x, "organizer", OpportunitySchemaPaths)}}]

\* RecommendationService.findSimilarExams
findSimilarExams(savedExams, preferences) ==
    Take(SelectSeq(ActiveExams, LAMBDA e :
            /\ ~ArrIncludes(savedExams, e._id)
            /\ (preferences.subjects # {} =>
                    Range(e.subjects) \cap preferences.subjects # {})
            /\ (preferences.examTypes # {} => e.exam_type \in preferences.examTypes)),
         SimilarExamLimit)

\* RecommendationService.findSimilarOpportunities
findSimilarOpportunities(savedOpportunities, preferences) ==
    Take(SelectSeq(ActiveOpportunities, LAMBDA o :
            /\ ~ArrIncludes(savedOpportunities, o._id)
            /\ (preferences.skills # {} =>
                    Range(o.skills_required) \cap preferences.skills # {})
            /\ (preferences.domains # {} =>
                    Range(o.domain) \cap preferences.domains # {})),
         SimilarOpportunityLimit)

\* the schema of an Exam or Opportunity document
SchemaOf(item) ==
    IF "exam_name" \in DOMAIN item THEN ExamSchemaPaths ELSE OpportunitySchemaPaths

\* whether item.path is defined on a hydrated Exam or Opportunity document
ItemHas(item, path) == HasProp(item, path, SchemaOf(item))

\* (matching.length / facet.length) * weight ; 0 / 0 is NaN
FacetTerm(facet, preferred, weight) ==
    Times(Frac(Len(SelectSeq(facet, LAMBDA x : x \in preferred)), Len(facet)), weight)

\* RecommendationService.calculateContentSimilarity: an array, also an empty
\* one, is truthy; company and organizer count only when they match
calculateContentSimilarity(item, preferences) ==
    LET hasCompany == /\ TruthyString(item, "company", SchemaOf(item))
                      /\ item.company \in preferences.companies
        hasOrganizer == /\ TruthyString(item, "organizer", SchemaOf(item))
                        /\ item.organizer \in preferences.organizers
        \* the facets the item has, each with its term and its weight
        subjects == ItemHas(item, "subjects")
        skills == ItemHas(item, "skills_required")
        domain == ItemHas(item, "domain")
        t1 == IF subjects
              THEN FacetTerm(item.subjects, preferences.subjects, Frac(4, 10)) ELSE Zero
        t2 == IF skills
              THEN FacetTerm(item.skills_required, preferences.skills, Frac(3, 10))
              ELSE Zero
        t3 == IF domain
              THEN FacetTerm(item.domain, preferences.domains, Frac(2, 10)) ELSE Zero
        t4 == IF hasCompany THEN Frac(1, 10) ELSE Zero
        t5 == IF hasOrganizer THEN Frac(1, 10) ELSE Zero
        w1 == IF subjects THEN Frac(4, 10) ELSE Zero
        w2 == IF skills THEN Frac(3, 10) ELSE Zero
        w3 == IF domain THEN Frac(2, 10) ELSE Zero
        score == Plus(Plus(Plus(Plus(t1, t2), t3), t4), t5)
        totalWeight == Plus(Plus(Plus(Plus(w1, w2), w3), t4), t5)
    IN  IF Gt(totalWeight, Zero) THEN Over(score, totalWeight) ELSE Zero

\* the threshold test written !(score <= 0.7), which NaN passes
ContentEmitsNotAtMost(score) == ~Geq(ContentThreshold, score)

\* if (score > 0.7)
ContentEmits(score) == Gt(score, ContentThreshold)

RECURSIVE ContentLoop(_, _, _, _)
ContentLoop(user, type, pool, preferences) ==
    IF pool = <<>> THEN <<>>
    ELSE LET score == calculateContentSimilarity(Head(pool), preferences)
         IN  (IF ContentEmits(score)
              THEN <<Rec(user, type, Head(pool)._id, score, "content_based",
                         <<Reason(IF type = "exam" THEN "Similar to your saved exams"
                                  ELSE "Similar to your saved opportunities", Frac(4, 10)),
                           Reason("Matches your preferences", Frac(3, 10))>>)>>
              ELSE <<>>) \o ContentLoop(user, type, Tail(pool), preferences)

generateContentBasedRecommendations(user) ==
    LET userPreferences == analyzeUserPreferences(user) IN
    IF user.role = "school" /\ Len(user.saved_exams) > 0
    THEN ContentLoop(user, "exam",
                     findSimilarExams(user.saved_exams, userPreferences),
                     userPreferences)
    ELSE IF user.role = "university" /\ Len(SavedOpportunities(user)) > 0
    THEN ContentLoop(user, "opportunity",
                     findSimilarOpportunities(SavedOpportunities(user), userPreferences),
                     userPreferences)
    ELSE <<>>

-----------------------------------------------------------------------------
(* Neighbor-Based (collaborative filtering) scorer *)

SimilarUserLimit == 20
MinNeighborCount == 2

RECURSIVE Flatten(_)
Flatten(ss) == IF ss = <<>> THEN <<>> ELSE Head(ss) \o Flatten(Tail(ss))

\* the distinct elements of a sequence, in the order they first occur: the
\* key order of an object filled by the loop
RECURSIVE FirstSeen(_)
FirstSeen(seq) ==
    IF seq = <<>> THEN <<>>
    ELSE LET front == FirstSeen(SubSeq(seq, 1, Len(seq) - 1))
             x == seq[Len(seq)]
         IN  IF ArrIncludes(front, x) THEN front ELSE Append(front, x)

Count(seq, x) == Cardinality({i \in DOMAIN seq : seq[i] = x})

\* User.findByInterests(interests).find({_id: {$ne: user._id}}).limit(20)
SimilarUsers(user) ==
    Take(SelectSeq(users, LAMBDA u :
            /\ Range(u.preferences.interests) \cap Range(user.preferences.interests) # {}
            /\ u.is_active
            /\ u._id # user._id),
         SimilarUserLimit)

\* .populate(path): the ids that refer to a stored document, in array order
Populate(ids, collection) ==
    SelectSeq(ids, LAMBDA id : \E i \in DOMAIN collection : collection[i]._id = id)

\* MongooseArray.prototype.includes on an array of ObjectIds compares the ids
MongooseArrayIncludes(arr, id) == ArrIncludes(arr, id)

\* Array.prototype.includes on a plain array of ObjectIds, [...a, ...b],
\* compares object identity: the _id of a populated document is another
\* object than the ObjectId held in the learner's array
PlainArrayIncludes(arr, id) == FALSE

\* Math.min(count / similarUsers.length, 1.0)
NeighborScore(count, neighbors) == MathMin(Frac(count, neighbors), One)

RECURSIVE NeighborLoop(_, _, _, _, _)
NeighborLoop(user, type, keys, saved, neighbors) ==
    IF keys = <<>> THEN <<>>
    ELSE LET id == Head(keys)
             count == Count(saved, id)
             already == IF type = "exam"
                        THEN MongooseArrayIncludes(user.saved_exams, id)
                        ELSE PlainArrayIncludes(SavedOpportunities(user), id)
         IN  (IF count >= MinNeighborCount /\ ~already
              THEN <<Rec(user, type, id, NeighborScore(count, neighbors),
                         "collaborative_filtering",
                         <<Reason("Popular among users like you", Frac(5, 10))>>)>>
              ELSE <<>>) \o NeighborLoop(user, type, Tail(keys), saved, neighbors)

\* a neighbor scorer that takes no account of the learner's role: the exams
\* and the opportunities the neighbors saved are both scored
generateCollaborativeOfBothKinds(user) ==
    LET similarUsers == SimilarUsers(user)
        savedExams == Flatten([i \in DOMAIN similarUsers |->
                          Populate(similarUsers[i].saved_exams, exams)])
        savedOpps == Flatten([i \in DOMAIN similarUsers |->
                          Populate(SavedOpportunities(similarUsers[i]), opps)])
    IN  IF Len(similarUsers) = 0 THEN <<>>
        ELSE NeighborLoop(user, "exam", FirstSeen(savedExams), savedExams,
                          Len(similarUsers))
             \o NeighborLoop(user, "opportunity", FirstSeen(savedOpps), savedOpps,
                             Len(similarUsers))

generateCollaborativeFilteringRecommendations(user) ==
    LET similarUsers == SimilarUsers(user)
        savedExams == Flatten([i \in DOMAIN similarUsers |->
                          Populate(similarUsers[i].saved_exams, exams)])
        savedOpps == Flatten([i \in DOMAIN similarUsers |->
                          Populate(SavedOpportunities(similarUsers[i]), opps)])
    IN  IF Len(similarUsers) = 0 THEN <<>>
        ELSE IF user.role = "school"
        THEN NeighborLoop(user, "exam", FirstSeen(savedExams), savedExams,
                          Len(similarUsers))
        ELSE NeighborLoop(user, "opportunity", FirstSeen(savedOpps), savedOpps,
                          Len(similarUsers))

-----------------------------------------------------------------------------
(* Hybrid Merger: RecommendationService.generateHybridRecommendations *)

\* slice(0, 50) in the code; scaled down so that the cut happens with the
\* pools of the model
HybridLimit == 2

\* `${rec.entity_type}_${rec.entity_id}`
KeyOf(rec) == <<rec.entity_type, rec.entity_id>>

\* a merge that keeps the first entry as it is
MergeEntryKeepFirst(existing, rec) == existing

\* a merge that weighs the stored score twice: (2 * existing + incoming) / 3
MergeEntryThirds(existing, rec) ==
    [existing EXCEPT
        !.score = Times(Plus(Times(Num(2), existing.score), rec.score), Frac(1, 3)),
        !.algorithm_used = "hybrid",
        !.recommendation_reasons =
            existing.recommendation_reasons \o rec.recommendation_reasons]

\* the else branch of the forEach: the stored entry becomes the mean, is
\* relabelled hybrid and gets the incoming reasons appended
MergeEntry(existing, rec) ==
    [existing EXCEPT
        !.score = Times(Plus(existing.score, rec.score), Frac(1, 2)),
        !.algorithm_used = "hybrid",
        !.recommendation_reasons =
            existing.recommendation_reasons \o rec.recommendation_reasons]

\* the forEach over allRecommendations: the Map's values in insertion order
RECURSIVE UniqueRecommendations(_)
UniqueRecommendations(all) ==
    IF all = <<>> THEN <<>>
    ELSE LET acc == UniqueRecommendations(SubSeq(all, 1, Len(all) - 1))
             rec == all[Len(all)]
         IN  IF \E i \in DOMAIN acc : KeyOf(acc[i]) = KeyOf(rec)
             THEN LET i == CHOOSE j \in DOMAIN acc : KeyOf(acc[j]) = KeyOf(rec)
                  IN  [acc EXCEPT ![i] = MergeEntry(acc[i], rec)]
             ELSE Append(acc, rec)

\* no sort at all
SortByScoreNone(seq) == seq

\* a descending sort that is not stable: an element goes in front of the
\* elements of equal score that came before it
RECURSIVE SortByScoreUnstable(_)
SortByScoreUnstable(seq) ==
    IF seq = <<>> THEN <<>>
    ELSE LET front == SortByScoreUnstable(SubSeq(seq, 1, Len(seq) - 1))
             x == seq[Len(seq)]
             k == Cardinality({i \in DOMAIN front : Gt(front[i].score, x.score)})
         IN  SubSeq(front, 1, k) \o <<x>> \o SubSeq(front, k + 1, Len(front))

\* Array.prototype.sort((a, b) => b.score - a.score): descending, stable
RECURSIVE SortByScore(_)
SortByScore(seq) ==
    IF seq = <<>> THEN <<>>
    ELSE LET front == SortByScore(SubSeq(seq, 1, Len(seq) - 1))
             x == seq[Len(seq)]
             k == Cardinality({i \in DOMAIN front : Geq(front[i].score, x.score)})
         IN  SubSeq(front, 1, k) \o <<x>> \o SubSeq(front, k + 1, Len(front))

\* the merge step on the three strategy outputs
HybridMerge(ruleBased, contentBased, collaborative) ==
    Take(SortByScore(UniqueRecommendations(ruleBased \o contentBased \o collaborative)),
         HybridLimit)

generateHybridRecommendations(user) ==
    HybridMerge(generateRuleBasedRecommendations(user),
                generateContentBasedRecommendations(user),
                generateCollaborativeFilteringRecommendations(user))

-----------------------------------------------------------------------------
(* Recommendation model: schema defaults, statics *)

ExpiryDays == 30
DefaultListLimit == 20

\* a Date path that is not set
NoDate == 0 - 1

\* the document insertMany stores for one element of a batch: the schema
\* defaults (user_interaction, expires_at = now + 30 days, is_active) and the
\* timestamps option's createdAt
NewDocument(rec, id) ==
    [_id |-> id,
     user_id |-> rec.user_id, entity_type |-> rec.entity_type,
     entity_id |-> rec.entity_id, score |-> rec.score,
     algorithm_used |-> rec.algorithm_used,
     recommendation_reasons |-> rec.recommendation_reasons,
     user_interaction |-> [viewed |-> FALSE, saved |-> FALSE, applied |-> FALSE,
                           viewed_at |-> NoDate, saved_at |-> NoDate,
                           applied_at |-> NoDate],
     expires_at |-> now + ExpiryDays,
     is_active |-> TRUE,
     createdAt |-> now]

\* the schema's validators of score: required, min 0, max 1
ScoreValid(score) == Geq(score, Zero) /\ Geq(One, score)

\* an insert that carries the interaction state of the learner's stored
\* document of the same offering over to the new document
InsertManyKeepingInteraction(collection, batch) ==
    collection \o [i \in DOMAIN batch |->
        LET fresh == NewDocument(batch[i], nextId + i - 1)
            old == {j \in DOMAIN recs :
                       /\ recs[j].user_id = fresh.user_id
                       /\ recs[j].entity_type = fresh.entity_type
                       /\ recs[j].entity_id = fresh.entity_id}
        IN  IF old = {} THEN fresh
            ELSE [fresh EXCEPT !.user_interaction =
                     recs[CHOOSE j \in old : TRUE].user_interaction]]

\* Recommendation.insertMany(batch): the collection afterwards
InsertMany(collection, batch) ==
    collection \o [i \in DOMAIN batch |-> NewDocument(batch[i], nextId + i - 1)]

\* Recommendation.deleteMany({}): the filter without the learner
DeleteManyAll(collection, userId) == <<>>

\* Recommendation.deleteMany({user_id}): the collection afterwards
DeleteMany(collection, userId) ==
    SelectSeq(collection, LAMBDA r : r.user_id # userId)

\* User.findOne() in place of findById: some document for every id
FindUserAny(userId) ==
    IF \E i \in DOMAIN users : users[i]._id = userId
    THEN CHOOSE i \in DOMAIN users : users[i]._id = userId
    ELSE 1

\* User.findById: the index of the document, 0 for null
FindUser(userId) ==
    IF \E i \in DOMAIN users : users[i]._id = userId
    THEN CHOOSE i \in DOMAIN users : users[i]._id = userId
    ELSE 0

\* the query with expires_at: {$gte: now} in place of {$gt: now}
FindForUserQueryGte(userId, entityType) ==
    SelectSeq(recs, LAMBDA r :
        /\ r.user_id = userId
        /\ r.is_active
        /\ r.expires_at >= now
        /\ (entityType # "" => r.entity_type = entityType))

\* the query of findForUser: user_id, is_active: true, expires_at > now and,
\* when an entity type is given, entity_type
FindForUserQuery(userId, entityType) ==
    SelectSeq(recs, LAMBDA r :
        /\ r.user_id = userId
        /\ r.is_active
        /\ r.expires_at > now
        /\ (entityType # "" => r.entity_type = entityType))

\* whether a sequence is an order sort({score: -1, created_at: -1}) may
\* return: scores do not increase. The documents hold createdAt, not
\* created_at, so the second key is missing in all of them and orders nothing;
\* MongoDB leaves the order of documents with equal keys open.
SortedByScore(seq) ==
    \A i, j \in DOMAIN seq : i < j => Geq(seq[i].score, seq[j].score)

\* the orders of a sequence of documents
Orderings(seq) ==
    {[i \in DOMAIN seq |-> seq[p[i]]] :
        p \in {q \in [DOMAIN seq -> DOMAIN seq] :
                  \A a, b \in DOMAIN seq : a # b => q[a] # q[b]}}

\* Recommendation.findForUser(userId, entityType, limit): the results it may
\* return
findForUser(userId, entityType, limit) ==
    {Take(seq, limit) :
        seq \in {p \in Orderings(FindForUserQuery(userId, entityType)) :
                    SortedByScore(p)}}

\* Recommendation.findTopRecommendations(userId, limit): the results it may
\* return; the query adds 'user_interaction.viewed': false and the sort is
\* {score: -1} alone
findTopRecommendations(userId, limit) ==
    {Take(seq, limit) :
        seq \in {p \in Orderings(SelectSeq(FindForUserQuery(userId, ""),
                                            LAMBDA r : ~r.user_interaction.viewed)) :
                    SortedByScore(p)}}

\* an update that makes the kinds cumulative: applied sets saved as well
SetInteractionCumulative(r, interactionType) ==
    [r EXCEPT !.user_interaction =
        IF interactionType = "viewed"
        THEN [@ EXCEPT !.viewed = TRUE, !.viewed_at = now]
        ELSE IF interactionType = "saved"
        THEN [@ EXCEPT !.saved = TRUE, !.saved_at = now]
        ELSE [@ EXCEPT !.applied = TRUE, !.applied_at = now,
                       !.saved = TRUE, !.saved_at = now]]

\* the update of updateInteraction on one document: $set of the flag and of
\* its timestamp
SetInteraction(r, interactionType) ==
    [r EXCEPT !.user_interaction =
        IF interactionType = "viewed"
        THEN [@ EXCEPT !.viewed = TRUE, !.viewed_at = now]
        ELSE IF interactionType = "saved"
        THEN [@ EXCEPT !.saved = TRUE, !.saved_at = now]
        ELSE [@ EXCEPT !.applied = TRUE, !.applied_at = now]]

\* the filter of findByIdAndUpdate: the _id alone
UpdateFilter(r, recommendationId) == r._id = recommendationId

\* Recommendation.updateInteraction(recommendationId, interactionType): the
\* collection afterwards
updateInteraction(recommendationId, interactionType) ==
    [i \in DOMAIN recs |->
        IF UpdateFilter(recs[i], recommendationId)
        THEN SetInteraction(recs[i], interactionType)
        ELSE recs[i]]

-----------------------------------------------------------------------------
(* recommendationController: the scorer written inline in the generate
   handler *)

EndpointExamLimit == 20
EndpointOpportunityLimit == 30

\* the body of the handler's loop over exams, up to the threshold test
EndpointExamScore(user, exam) ==
    LET stream == /\ user.school_info.stream = "Science"
                  /\ (\/ ArrIncludes(exam.subjects, Physics)
                      \/ ArrIncludes(exam.subjects, Chemistry)
                      \/ ArrIncludes(exam.subjects, Maths))
        streamTerm == IF stream THEN Frac(3, 10) ELSE Zero
        interestTerm ==
            IF Len(user.preferences.interests) > 0
            THEN Times(Frac(Len(ExamMatchingInterests(user, exam)),
                            Len(user.preferences.interests)), Frac(2, 10))
            ELSE Zero
    IN  Plus(Plus(Frac(1, 2), streamTerm), interestTerm)

\* the body of the handler's loop over opportunities, up to the threshold test
EndpointOpportunityScore(user, opportunity) ==
    LET interestTerm ==
            IF Len(user.preferences.interests) > 0
            THEN Times(Frac(Len(OpportunityMatchingInterests(user, opportunity)),
                            Len(user.preferences.interests)), Frac(3, 10))
            ELSE Zero
        internship == opportunity.type = "internship"
        degree == internship /\
                  (\/ ArrIncludes(opportunity.degree_required, user.education.degree)
                   \/ ArrIncludes(opportunity.degree_required, AnyDegree))
        year == internship /\
                (\/ ArrIncludes(opportunity.year_of_study, user.education.year)
                 \/ ArrIncludes(opportunity.year_of_study, 0))
        degreeTerm == IF degree THEN Frac(2, 10) ELSE Zero
        yearTerm == IF year THEN Frac(2, 10) ELSE Zero
    IN  Plus(Plus(Plus(Frac(1, 2), interestTerm), degreeTerm), yearTerm)

\* if (score > 0.6) in the handler
EndpointEmits(score) == Gt(score, RuleThreshold)

RECURSIVE EndpointExamLoop(_, _)
EndpointExamLoop(user, pool) ==
    IF pool = <<>> THEN <<>>
    ELSE LET score == EndpointExamScore(user, Head(pool))
         IN  (IF EndpointEmits(score)
              THEN <<Rec(user, "exam", Head(pool)._id, MathMin(score, One), "rule_based",
                         <<Reason("Matches your academic stream", Frac(3, 10)),
                           Reason("Aligns with your interests", Frac(2, 10))>>)>>
              ELSE <<>>) \o EndpointExamLoop(user, Tail(pool))

RECURSIVE EndpointOpportunityLoop(_, _)
EndpointOpportunityLoop(user, pool) ==
    IF pool = <<>> THEN <<>>
    ELSE LET score == EndpointOpportunityScore(user, Head(pool))
         IN  (IF EndpointEmits(score)
              THEN <<Rec(user, "opportunity", Head(pool)._id, MathMin(score, One),
                         "rule_based",
                         <<Reason("Matches your interests", Frac(3, 10)),
                           Reason("Suitable for your degree and year", Frac(2, 10))>>)>>
              ELSE <<>>) \o EndpointOpportunityLoop(user, Tail(pool))

\* newRecommendations of the generate handler
EndpointRecommendations(user) ==
    IF user.role = "school"
    THEN EndpointExamLoop(user, Take(ActiveExams, EndpointExamLimit))
    ELSE EndpointOpportunityLoop(user, Take(ActiveOpportunities, EndpointOpportunityLimit))

-----------------------------------------------------------------------------
(* The catalog and the users of the store's specification *)

History == <<"H", "i", "s", "t", "o", "r", "y">>
AI == <<"A", "I">>
Python == <<"P", "y", "t", "h", "o", "n">>
BTech == <<"B", "T", "e", "c", "h">>
Acme == <<"A", "c", "m", "e">>

School(id, stream, interests, savedExams) ==
    [_id |-> id, role |-> "school", is_active |-> TRUE,
     school_info |-> [stream |-> stream],
     education |-> [degree |-> <<>>, year |-> 0],
     preferences |-> [interests |-> interests],
     saved_exams |-> savedExams, saved_hackathons |-> <<>>,
     saved_internships |-> <<>>]

University(id, degree, year, interests, savedHackathons, savedInternships) ==
    [_id |-> id, role |-> "university", is_active |-> TRUE,
     school_info |-> [stream |-> ""],
     education |-> [degree |-> degree, year |-> year],
     preferences |-> [interests |-> interests],
     saved_exams |-> <<>>, saved_hackathons |-> savedHackathons,
     saved_internships |-> savedInternships]

Exam(id, name, subjects, date) ==
    [_id |-> id, exam_name |-> name, subjects |-> subjects,
     exam_type |-> "government", events |-> <<date>>, is_active |-> TRUE]

Internship(id, title, skills, degrees, years, count, deadline) ==
    [_id |-> id, title |-> title, type |-> "internship", company |-> Acme,
     skills_required |-> skills, domain |-> <<>>, degree_required |-> degrees,
     year_of_study |-> years, application_count |-> count,
     deadline |-> deadline, is_active |-> TRUE]

StoreUsers ==
    <<School("u1", "Science", <<Physics>>, <<>>),
      School("u2", "Science", <<Physics>>, <<"e1", "e2">>),
      School("u3", "Arts", <<Physics, History>>, <<"e2", "e1">>),
      University("u4", BTech, 2, <<AI>>, <<>>, <<>>)>>

StoreExams ==
    <<Exam("e1", <<"J", "E", "E">>, <<Physics, Chemistry>>, 1000),
      Exam("e2", <<"C", "L", "A", "T">>, <<History>>, 1000),
      Exam("e3", <<"N", "E", "E", "T">>, <<Biology>>, 0)>>

StoreOpportunities ==
    <<Internship("o1", <<"A", "I", " ", "L", "a", "b">>, <<Python>>,
                 <<AnyDegree>>, <<2>>, 51, 1000)>>

\* the ids a request may name: the learners that ask for recommendations and
\* an id that no user has
RequestUserIds == {"u1", "u4", "u0"}

Algorithms ==
    {"rule_based", "content_based", "collaborative_filtering", "hybrid", "other"}

\* a Recommendation document left by an earlier rule-based run for u1
SeedDocument(active) ==
    [NewDocument(Rec([_id |-> "u1"], "exam", "e1", One, "rule_based",
                     <<Reason("Matches your Science stream", Frac(3, 10))>>), 1)
        EXCEPT !.is_active = active, !.expires_at = ExpiryDays, !.createdAt = 0]

\* the Recommendation collection at the start: empty, or one document of an
\* earlier run, which the schema lets be active or not
SeedStores == {<<>>, <<SeedDocument(TRUE)>>, <<SeedDocument(FALSE)>>}

-----------------------------------------------------------------------------
(* The store's specification: requests handled one at a time *)

\* the (userId, algorithm) arguments of the service's calls
ServiceRequests ==
    ({"u1"} \X Algorithms) \cup {<<"u4", "rule_based">>, <<"u0", "rule_based">>}

\* the (userId, entityType, limit) arguments of the list requests; limit 0
\* stands for a request without a limit
ListRequests ==
    {<<"u1", "", 0>>, <<"u1", "exam", 1>>, <<"u1", "opportunity", 0>>,
     <<"u4", "", 0>>, <<"u0", "", 0>>}

\* the record ids of the interaction requests: the two oldest ids and the
\* id that no document has yet
InteractionIds == {1, 2, nextId}

Init ==
    /\ now = 0
    /\ users = StoreUsers
    /\ exams = StoreExams
    /\ opps = StoreOpportunities
    /\ recs \in SeedStores
    /\ nextId = Len(recs) + 1
    /\ resp = [op |-> "none"]
    /\ runLog = <<>>
    /\ mergeIn = <<>>
    /\ runs = <<>>
    /\ budget = MaxSteps

\* the clock advances by 30 days
Tick ==
    /\ budget > 0
    /\ now' = now + ExpiryDays
    /\ budget' = budget - 1
    /\ UNCHANGED <<users, exams, opps, recs, nextId, resp, runLog, mergeIn, runs>>

\* POST /recommendations/:userId/generate; resp.replaced holds the documents
\* deleteMany removed, which the handler's answer does not report
GenerateEndpoint(userId) ==
    /\ budget > 0
    /\ budget' = budget - 1
    /\ LET i == FindUser(userId) IN
       IF i = 0
       THEN /\ resp' = [op |-> "generate", status |-> 404, user |-> userId, at |-> now]
            /\ UNCHANGED <<recs, nextId, runLog>>
       ELSE LET newRecommendations == EndpointRecommendations(users[i]) IN
            /\ recs' = InsertMany(DeleteMany(recs, userId), newRecommendations)
            /\ nextId' = nextId + Len(newRecommendations)
            /\ runLog' = Append(runLog, userId)
            /\ resp' = [op |-> "generate", status |-> 200, user |-> userId, at |-> now,
                        recommendations_generated |-> Len(newRecommendations),
                        replaced |-> SelectSeq(recs, LAMBDA r : r.user_id = userId)]
    /\ UNCHANGED <<users, exams, opps, now, mergeIn, runs>>

\* the switch of RecommendationService.generateRecommendations
ServiceRecommendations(user, algorithm) ==
    IF algorithm = "rule_based" THEN generateRuleBasedRecommendations(user)
    ELSE IF algorithm = "content_based" THEN generateContentBasedRecommendations(user)
    ELSE IF algorithm = "collaborative_filtering"
    THEN generateCollaborativeFilteringRecommendations(user)
    ELSE generateHybridRecommendations(user)

\* RecommendationService.generateRecommendations(userId, algorithm)
GenerateService(userId, algorithm) ==
    /\ budget > 0
    /\ budget' = budget - 1
    /\ LET i == FindUser(userId) IN
       IF i = 0 \/ algorithm \notin
              {"rule_based", "content_based", "collaborative_filtering", "hybrid"}
       THEN /\ resp' = [op |-> "service", status |-> "error", user |-> userId, at |-> now]
            /\ UNCHANGED <<recs, nextId, runLog>>
       ELSE LET recommendations == ServiceRecommendations(users[i], algorithm) IN
            /\ recs' = InsertMany(recs, recommendations)
            /\ nextId' = nextId + Len(recommendations)
            /\ runLog' = Append(runLog, userId)
            /\ resp' = [op |-> "service", status |-> "ok", user |-> userId, at |-> now,
                        algorithm |-> algorithm, recommendations |-> recommendations]
    /\ UNCHANGED <<users, exams, opps, now, mergeIn, runs>>

\* PUT /recommendations/:id/interaction
UpdateRecommendationInteraction(id, interactionType) ==
    /\ budget > 0
    /\ budget' = budget - 1
    /\ IF interactionType \notin {"viewed", "saved", "applied"}
       THEN /\ resp' = [op |-> "interaction", status |-> 400, id |-> id,
                        type |-> interactionType, at |-> now]
            /\ recs' = recs
       ELSE /\ recs' = updateInteraction(id, interactionType)
            /\ resp' = [op |-> "interaction",
                        status |-> IF \E i \in DOMAIN recs : UpdateFilter(recs[i], id)
                                   THEN 200 ELSE 404,
                        id |-> id, type |-> interactionType, at |-> now]
    /\ UNCHANGED <<users, exams, opps, nextId, now, runLog, mergeIn, runs>>

\* GET /recommendations/:userId?entityType=&limit=
GetUserRecommendations(userId, entityType, limit) ==
    /\ budget > 0
    /\ budget' = budget - 1
    /\ IF FindUser(userId) = 0
       THEN resp' = [op |-> "list", status |-> 404, user |-> userId, at |-> now]
       ELSE \E recommendations \in
                findForUser(userId, entityType,
                            IF limit = 0 THEN DefaultListLimit ELSE limit) :
               resp' = [op |-> "list", status |-> 200, user |-> userId, at |-> now,
                        entityType |-> entityType, limit |-> limit,
                        recommendations |-> recommendations]
    /\ UNCHANGED <<users, exams, opps, recs, nextId, now, runLog, mergeIn, runs>>

Next ==
    \/ Tick
    \/ \E userId \in RequestUserIds : GenerateEndpoint(userId)
    \/ \E req \in ServiceRequests : GenerateService(req[1], req[2])
    \/ \E id \in InteractionIds, interactionType \in {"viewed", "saved", "applied"} :
           UpdateRecommendationInteraction(id, interactionType)
    \/ UpdateRecommendationInteraction(1, "clicked")
    \/ \E req \in ListRequests : GetUserRecommendations(req[1], req[2], req[3])

Spec == Init /\ [][Next]_vars

-----------------------------------------------------------------------------
(* The scorers' specification: one scorer applied to a learner and a pool *)

SeqsUpTo(S, n) == UNION {[1..k -> S] : k \in 0..n}

PhysicsTest == <<"P", "h", "y", "s", "i", "c", "s", " ", "T", "e", "s", "t">>

\* a school learner u1, three neighbors and three exams; e1 is stored with a
\* popularity counter of 150, which examSchema does not declare; e2 is of
\* the exam type of the others or of another one. The catalog also holds an
\* internship, which two neighbors have saved and the learner may have saved
SchoolWorlds ==
    {[users |-> <<[School("u1", stream, interests, saved)
                      EXCEPT !.saved_internships = savedOther],
                  [School("u2", "Science", <<Physics>>, saved2)
                      EXCEPT !.saved_hackathons = <<"o1">>],
                  [School("u3", "Arts", <<History>>, <<"e2", "e1">>)
                      EXCEPT !.saved_internships = <<"o1">>],
                  School("u5", "Arts", <<Physics>>, <<>>)>>,
      exams |-> <<Exam("e1", <<"J", "E", "E">>, <<Physics, Chemistry>>, 1000)
                      @@ [application_count |-> 150],
                  [Exam("e2", <<"C", "L", "A", "T">>, subjects2, 1000)
                      EXCEPT !.exam_type = examType2],
                  Exam("e3", PhysicsTest, <<Maths>>, 1000)>>,
      opps |-> <<Internship("o1", <<"A", "I", " ", "L", "a", "b">>, <<Python>>,
                            <<AnyDegree>>, <<2>>, 51, 1000)>>] :
        stream \in {"Science", "Arts"},
        interests \in SeqsUpTo({Physics, History}, MaxInterests),
        saved \in {<<>>, <<"e1">>, <<"e9">>},
        savedOther \in {<<>>, <<"o1">>},
        saved2 \in {<<"e2">>, <<"e1", "e2">>},
        subjects2 \in {<<>>, <<History>>, <<History, Physics>>, <<Biology>>, <<Physics>>},
        examType2 \in {"government", "private"}}

Opportunity(id, type, title, skills, domain, degrees, years, count) ==
    [_id |-> id, title |-> title, type |-> type,
     skills_required |-> skills, domain |-> domain, degree_required |-> degrees,
     year_of_study |-> years, application_count |-> count,
     deadline |-> 1000, is_active |-> TRUE]
        @@ (IF type = "internship" THEN [company |-> Acme] ELSE [organizer |-> Acme])

\* a university learner u1, two neighbors and two opportunities; the catalog
\* also holds an exam, which both neighbors have saved
UniversityWorlds ==
    {[users |-> <<University("u1", BTech, 2, interests, <<>>, saved),
                  [University("u2", BTech, 3, <<AI>>, <<>>, <<"o2">>)
                      EXCEPT !.saved_exams = <<"e1">>],
                  [University("u3", BTech, 1, <<Python>>, <<"o2">>, <<"o1">>)
                      EXCEPT !.saved_exams = <<"e1">>]>>,
      exams |-> <<Exam("e1", <<"J", "E", "E">>, <<Physics, Chemistry>>, 1000)>>,
      opps |-> <<Opportunity("o1", "internship", <<"A", "I", " ", "L", "a", "b">>,
                             <<Python>>, domain1, <<AnyDegree>>, <<2>>, 51),
                  Opportunity("o2", type2, <<"W", "e", "b">>, skills2, domain2,
                              degrees2, <<1>>, count2)>>] :
        interests \in SeqsUpTo({AI, Python}, MaxInterests),
        saved \in {<<>>, <<"o1">>, <<"o2">>},
        domain1 \in {<<>>, <<AI>>},
        type2 \in {"hackathon", "internship"},
        skills2 \in {<<>>, <<Python>>},
        domain2 \in {<<>>, <<AI>>},
        degrees2 \in {<<>>, <<BTech>>},
        count2 \in {OpportunityPopularityThreshold, OpportunityPopularityThreshold + 1}}

InitScore ==
    /\ now = 0
    /\ \E w \in SchoolWorlds \cup UniversityWorlds :
          /\ users = w.users
          /\ exams = w.exams
          /\ opps = w.opps
    /\ recs = <<>>
    /\ nextId = 1
    /\ resp = [op |-> "none"]
    /\ runLog = <<>>
    /\ mergeIn = <<>>
    /\ runs = <<>>
    /\ budget = 1

\* the learner the scorers are applied to
Learner == users[1]

Scored(algorithm, recommendations) ==
    /\ budget > 0
    /\ budget' = budget - 1
    /\ resp' = [op |-> "score", algorithm |-> algorithm,
                recommendations |-> recommendations]
    /\ UNCHANGED <<users, exams, opps, recs, nextId, now, runLog, mergeIn, runs>>

ScoreRuleBased == Scored("rule_based", generateRuleBasedRecommendations(Learner))

ScoreContentBased ==
    Scored("content_based", generateContentBasedRecommendations(Learner))

ScoreCollaborative ==
    Scored("collaborative_filtering",
           generateCollaborativeFilteringRecommendations(Learner))

ScoreHybrid == Scored("hybrid", generateHybridRecommendations(Learner))

ScoreEndpoint == Scored("endpoint", EndpointRecommendations(Learner))

NextScore ==
    \/ ScoreRuleBased
    \/ ScoreContentBased
    \/ ScoreCollaborative
    \/ ScoreHybrid
    \/ ScoreEndpoint

SpecScore == InitScore /\ [][NextScore]_vars

-----------------------------------------------------------------------------
(* The list requests' specification: one request on a stored collection *)

TopListLimit == 10

\* GET /recommendations/:userId/top?limit=
GetTopRecommendations(userId, limit) ==
    /\ budget > 0
    /\ budget' = budget - 1
    /\ IF FindUser(userId) = 0
       THEN resp' = [op |-> "top", status |-> 404, user |-> userId, at |-> now]
       ELSE \E recommendations \in
                findTopRecommendations(userId,
                                       IF limit = 0 THEN TopListLimit ELSE limit) :
               resp' = [op |-> "top", status |-> 200, user |-> userId, at |-> now,
                        limit |-> limit, recommendations |-> recommendations]
    /\ UNCHANGED <<users, exams, opps, recs, nextId, now, runLog, mergeIn, runs>>

\* the collections a list request can meet: the i-th document was inserted
\* on day i; it belongs to u1 and is served, inactive or expired, or belongs
\* to u4
StoredCollections ==
    {[i \in DOMAIN shape |->
        [NewDocument(Rec([_id |-> IF shape[i][4] = "other" THEN "u4" ELSE "u1"],
                         shape[i][2], "e1", shape[i][1], "rule_based", <<>>), i)
            EXCEPT !.createdAt = i,
                   !.is_active = shape[i][4] # "inactive",
                   !.expires_at = IF shape[i][4] = "expired" THEN ExpiryDays
                                  ELSE i + ExpiryDays,
                   !.user_interaction.viewed = shape[i][3],
                   !.user_interaction.viewed_at = IF shape[i][3] THEN i ELSE NoDate]] :
        shape \in SeqsUpTo({Frac(4, 5), One} \X {"exam", "opportunity"} \X BOOLEAN
                               \X {"served", "inactive", "expired", "other"},
                           MaxRecords)}

InitList ==
    /\ now = ExpiryDays
    /\ users = StoreUsers
    /\ exams = StoreExams
    /\ opps = StoreOpportunities
    /\ recs \in StoredCollections
    /\ nextId = Len(recs) + 1
    /\ resp = [op |-> "none"]
    /\ runLog = <<>>
    /\ mergeIn = <<>>
    /\ runs = <<>>
    /\ budget = 1

NextList ==
    \/ \E req \in {<<"", 0>>, <<"", 1>>, <<"exam", 1>>, <<"opportunity", 0>>} :
          GetUserRecommendations("u1", req[1], req[2])
    \/ GetUserRecommendations("u0", "", 0)
    \/ \E limit \in {0, 1} : GetTopRecommendations("u1", limit)
    \/ GetTopRecommendations("u0", 0)

SpecList == InitList /\ [][NextList]_vars

-----------------------------------------------------------------------------
(* The merge step's specification: three strategy outputs, merged once *)

MergeKeys == {"e1", "e2", "e3"}

\* the lists one strategy can hand over: its records for the learner, each
\* candidate at most once, scores among the given ones
StrategyLists(algorithm, scores, n) ==
    {list \in SeqsUpTo({Rec([_id |-> "u1"], "exam", id, score, algorithm,
                            <<Reason(algorithm, score)>>) :
                            id \in MergeKeys, score \in scores}, n) :
        \A i, j \in DOMAIN list : KeyOf(list[i]) = KeyOf(list[j]) => i = j}

InitMerge ==
    /\ now = 0
    /\ users = <<>>
    /\ exams = <<>>
    /\ opps = <<>>
    /\ recs = <<>>
    /\ nextId = 1
    /\ resp = [op |-> "none"]
    /\ runLog = <<>>
    /\ mergeIn \in
          [ruleBased : StrategyLists("rule_based", {Frac(4, 5), One}, MaxRuleList),
           contentBased :
               StrategyLists("content_based", {Frac(4, 5), One}, MaxOtherList),
           collaborative :
               StrategyLists("collaborative_filtering", {Frac(1, 2), One},
                             MaxOtherList)]
    /\ runs = <<>>
    /\ budget = 2

\* the results in the order in which the promises settled
PromiseAllSettleOrder(results, settled) ==
    [i \in DOMAIN results |-> results[settled[i]]]

\* await Promise.all([a, b, c]): the results in the order of the promises,
\* whatever the order in which they settle
PromiseAll(results, settled) == results

\* await Promise.all([a, b, c]) throws when one of the promises is rejected:
\* generateHybridRecommendations has no try/catch around it, and no scorer
\* catches the error of its own queries
PromiseAllRejects(failed) == failed # {}

\* lines 324-352 of generateHybridRecommendations on the three lists, the
\* three scorers settling in any order and the scorers in `failed` throwing;
\* the response keeps the output of the run before it, and a behaviour ends
\* with the run that is rejected
MergeStep ==
    /\ budget > 0
    /\ \E failed \in SUBSET {1, 2, 3} :
          IF PromiseAllRejects(failed)
          THEN /\ resp' = [op |-> "rejected", failed |-> failed]
               /\ budget' = 0
          ELSE /\ \E settled \in Orderings(<<1, 2, 3>>) :
                     LET lists == PromiseAll(<<mergeIn.ruleBased, mergeIn.contentBased,
                                               mergeIn.collaborative>>, settled)
                     IN  resp' = [op |-> "merge", failed |-> failed,
                                  recommendations |->
                                      HybridMerge(lists[1], lists[2], lists[3]),
                                  earlier |-> IF resp.op = "merge"
                                              THEN <<resp.recommendations>> ELSE <<>>]
               /\ budget' = budget - 1
    /\ UNCHANGED <<users, exams, opps, recs, nextId, now, runLog, mergeIn, runs>>

NextMerge == MergeStep

SpecMerge == InitMerge /\ [][NextMerge]_vars

-----------------------------------------------------------------------------
(* The generation runs' specification: concurrent runs, one await at a time *)

\* the number of generation runs in flight
MaxRuns == 2

\* a Recommendation document left by an earlier run for u4
OtherSeedDocument ==
    [NewDocument(Rec([_id |-> "u4"], "opportunity", "o1", One, "rule_based",
                     <<Reason("Matches your degree", Frac(3, 10))>>), 2)
        EXCEPT !.expires_at = ExpiryDays, !.createdAt = 0]

\* the Recommendation collection when the runs start
RunSeedStores ==
    {<<>>, <<SeedDocument(TRUE)>>, <<OtherSeedDocument>>,
     <<SeedDocument(TRUE), OtherSeedDocument>>}

\* the runs that can be in flight: (userId, entry), the entry being the
\* endpoint or the service with one of its algorithms
RunRequests == (RequestUserIds \X {"endpoint"}) \cup ServiceRequests

\* the _ids of the records of the learner that are served: active, unexpired
ServedIn(collection, userId) ==
    {collection[i]._id : i \in {j \in DOMAIN collection :
        /\ collection[j].user_id = userId
        /\ collection[j].is_active
        /\ now < collection[j].expires_at}}

InitRun ==
    /\ now = 0
    /\ users = StoreUsers
    /\ exams = StoreExams
    /\ opps = StoreOpportunities
    /\ recs \in RunSeedStores
    /\ nextId = 3
    /\ resp = [op |-> "none"]
    /\ runLog = <<>>
    /\ mergeIn = <<>>
    /\ runs \in [1 .. MaxRuns ->
                   {[user |-> req[1], entry |-> req[2], pc |-> "lookup",
                     batch |-> <<>>, first |-> 0, served_before |-> {}] :
                        req \in RunRequests}]
    /\ budget = 0

\* await User.findById(userId): null ends the run, with 404 in the endpoint
\* and with Error('User not found') in the service
RunLookup(p) ==
    /\ runs[p].pc = "lookup"
    /\ runs' = [runs EXCEPT ![p].pc =
                   IF FindUser(runs[p].user) = 0 THEN "rejected"
                   ELSE IF runs[p].entry = "endpoint" THEN "delete" ELSE "fetch"]
    /\ UNCHANGED <<users, exams, opps, recs, nextId, now, resp, runLog, mergeIn, budget>>

\* await Recommendation.deleteMany({ user_id }) of the endpoint;
\* served_before remembers what the learner was served until then
RunDelete(p) ==
    /\ runs[p].pc = "delete"
    /\ recs' = DeleteMany(recs, runs[p].user)
    /\ runs' = [runs EXCEPT ![p].pc = "fetch",
                            ![p].served_before = ServedIn(recs, runs[p].user)]
    /\ UNCHANGED <<users, exams, opps, nextId, now, resp, runLog, mergeIn, budget>>

\* the awaits on the catalog and the scoring: the endpoint's inline loops, or
\* the service's switch, which throws on an algorithm it does not know
RunFetch(p) ==
    /\ runs[p].pc = "fetch"
    /\ LET user == users[FindUser(runs[p].user)] IN
       runs' = IF runs[p].entry = "endpoint"
               THEN [runs EXCEPT ![p].pc = "insert",
                                 ![p].batch = EndpointRecommendations(user)]
               ELSE IF runs[p].entry \in
                         {"rule_based", "content_based", "collaborative_filtering",
                          "hybrid"}
               THEN [runs EXCEPT ![p].pc = "insert",
                                 ![p].batch = ServiceRecommendations(user, runs[p].entry)]
               ELSE [runs EXCEPT ![p].pc = "rejected"]
    /\ UNCHANGED <<users, exams, opps, recs, nextId, now, resp, runLog, mergeIn, budget>>

\* await Recommendation.insertMany(batch) resolving; the endpoint skips the
\* call for an empty batch
RunInsert(p) ==
    /\ runs[p].pc = "insert"
    /\ recs' = InsertMany(recs, runs[p].batch)
    /\ nextId' = nextId + Len(runs[p].batch)
    /\ runs' = [runs EXCEPT ![p].pc = "done", ![p].first = nextId]
    /\ UNCHANGED <<users, exams, opps, now, resp, runLog, mergeIn, budget>>

\* await Recommendation.insertMany(batch) rejecting: an ordered insert stops
\* at the first document that fails, the ones before it are stored
RunInsertFails(p) ==
    /\ runs[p].pc = "insert"
    /\ runs[p].batch # <<>>
    /\ \E stored \in 0 .. Len(runs[p].batch) - 1 :
          /\ recs' = InsertMany(recs, Take(runs[p].batch, stored))
          /\ nextId' = nextId + stored
    /\ runs' = [runs EXCEPT ![p].pc = "failed", ![p].first = nextId]
    /\ UNCHANGED <<users, exams, opps, now, resp, runLog, mergeIn, budget>>

NextRun ==
    \/ \E p \in DOMAIN runs : RunLookup(p)
    \/ \E p \in DOMAIN runs : RunDelete(p)
    \/ \E p \in DOMAIN runs : RunFetch(p)
    \/ \E p \in DOMAIN runs : RunInsert(p)
    \/ \E p \in DOMAIN runs : RunInsertFails(p)

SpecRun == InitRun /\ [][NextRun]_vars

-----------------------------------------------------------------------------
(* The router's specification: one request dispatched over the route table *)

TrendingLimit == 10

\* the path segments of the requests, as strings of characters: the words of
\* the route table, a 24-digit hexadecimal id, an id one digit short and an
\* id with a letter that is no hexadecimal digit
Segment ==
    [trending |-> <<"t", "r", "e", "n", "d", "i", "n", "g">>,
     admin |-> <<"a", "d", "m", "i", "n">>,
     metrics |-> <<"m", "e", "t", "r", "i", "c", "s">>,
     top |-> <<"t", "o", "p">>,
     analytics |-> <<"a", "n", "a", "l", "y", "t", "i", "c", "s">>,
     similar |-> <<"s", "i", "m", "i", "l", "a", "r">>,
     generate |-> <<"g", "e", "n", "e", "r", "a", "t", "e">>,
     interaction |-> <<"i", "n", "t", "e", "r", "a", "c", "t", "i", "o", "n">>,
     id |-> [i \in 1 .. 24 |-> IF i % 2 = 0 THEN "4" ELSE "F"],
     short |-> [i \in 1 .. 23 |-> "0"],
     nonhex |-> [i \in 1 .. 24 |-> IF i = 24 THEN "g" ELSE "a"]]

\* express-validator's isMongoId(): 24 hexadecimal digits, in either case
isMongoId(str) ==
    /\ Len(str) = 24
    /\ \A i \in DOMAIN str :
          str[i] \in {"0", "1", "2", "3", "4", "5", "6", "7", "8", "9",
                      "a", "b", "c", "d", "e", "f", "A", "B", "C", "D", "E", "F"}

\* validatePagination's rule for limit (0 stands for no limit in the query):
\* optional, an integer from 1 to 100
validatePagination(limit) == limit = 0 \/ (1 <= limit /\ limit <= 100)

\* the route table in the order of its declarations: method, path pattern
\* (a parameter or a literal per segment) and the chain of middleware that
\* ends in the handler
Routes ==
    <<[method |-> "GET", path |-> <<[param |-> "userId", text |-> <<>>]>>,
       chain |-> <<"validateObjectId", "validatePagination", "getUserRecommendations">>],
      [method |-> "GET",
       path |-> <<[param |-> "userId", text |-> <<>>], [param |-> "", text |-> Segment.top]>>,
       chain |-> <<"validateObjectId", "getTopRecommendations">>],
      [method |-> "GET",
       path |-> <<[param |-> "userId", text |-> <<>>],
                  [param |-> "", text |-> Segment.analytics]>>,
       chain |-> <<"validateObjectId", "getRecommendationAnalytics">>],
      [method |-> "GET",
       path |-> <<[param |-> "userId", text |-> <<>>],
                  [param |-> "", text |-> Segment.similar]>>,
       chain |-> <<"validateObjectId", "getSimilarUsers">>],
      [method |-> "POST",
       path |-> <<[param |-> "userId", text |-> <<>>],
                  [param |-> "", text |-> Segment.generate]>>,
       chain |-> <<"validateObjectId", "generateRecommendations">>],
      [method |-> "PUT",
       path |-> <<[param |-> "id", text |-> <<>>],
                  [param |-> "", text |-> Segment.interaction]>>,
       chain |-> <<"validateObjectId", "updateRecommendationInteraction">>],
      [method |-> "GET", path |-> <<[param |-> "", text |-> Segment.trending]>>,
       chain |-> <<"getTrendingRecommendations">>],
      [method |-> "GET",
       path |-> <<[param |-> "", text |-> Segment.admin],
                  [param |-> "", text |-> Segment.metrics]>>,
       chain |-> <<"authorize", "getRecommendationMetrics">>]>>

\* Express matches a route when the method is the route's and every segment
\* of the path fits the pattern: a parameter takes any segment, a literal
\* only itself
RouteMatches(route, req) ==
    /\ route.method = req.method
    /\ Len(route.path) = Len(req.path)
    /\ \A k \in DOMAIN route.path :
          route.path[k].param # "" \/ route.path[k].text = req.path[k]

\* getTrendingRecommendations without a type in the query: the lists of items
\* it may answer. The catalog's documents have no created_at, so the sorts on
\* it order nothing; the opportunities come by application_count descending
getTrendingRecommendations(limit) ==
    LET limitNum == IF limit = 0 THEN TrendingLimit ELSE limit
        trendingExams ==
            [i \in DOMAIN ActiveExams |-> ActiveExams[i] @@ [entity_type |-> "exam"]]
        trendingOpportunities ==
            [i \in DOMAIN ActiveOpportunities |->
                ActiveOpportunities[i] @@ [entity_type |-> "opportunity"]]
    IN  {Take(Take(e, limitNum) \o Take(o, limitNum), limitNum) :
            e \in Orderings(trendingExams),
            o \in {q \in Orderings(trendingOpportunities) :
                      \A i, j \in DOMAIN q :
                          i < j => q[i].application_count >= q[j].application_count}}

\* the chain of a matched route, one middleware after the other: a validator
\* that finds an error answers 400 and the chain ends there; authorize
\* answers 403 to another role; the handler answers the request
RECURSIVE RunChain(_, _, _)
RunChain(chain, route, req) ==
    IF Head(chain) = "validateObjectId"
    THEN IF isMongoId(req.path[1])
         THEN RunChain(Tail(chain), route, req)
         ELSE {[status |-> 400, handler |-> "handleValidationErrors"]}
    ELSE IF Head(chain) = "validatePagination"
    THEN IF validatePagination(req.limit)
         THEN RunChain(Tail(chain), route, req)
         ELSE {[status |-> 400, handler |-> "handleValidationErrors"]}
    ELSE IF Head(chain) = "authorize"
    THEN IF req.role = "admin"
         THEN RunChain(Tail(chain), route, req)
         ELSE {[status |-> 403, handler |-> "authorize"]}
    ELSE IF Head(chain) = "getTrendingRecommendations"
    THEN {[status |-> 200, handler |-> Head(chain), items |-> items] :
              items \in getTrendingRecommendations(req.limit)}
    ELSE {[status |-> 0, handler |-> Head(chain)]}

\* the router on one request: protect first, then the first route in the
\* order of declaration that matches, then that route's chain; the answers
\* it may give (status 0: the answer is the named handler's)
Dispatch(req) ==
    IF ~req.authenticated THEN {[status |-> 401, handler |-> "protect"]}
    ELSE IF \A i \in DOMAIN Routes : ~RouteMatches(Routes[i], req)
    THEN {[status |-> 404, handler |-> "none"]}
    ELSE LET first == CHOOSE i \in DOMAIN Routes :
                          /\ RouteMatches(Routes[i], req)
                          /\ \A j \in 1 .. (i - 1) : ~RouteMatches(Routes[j], req)
         IN  RunChain(Routes[first].chain, Routes[first], req)

\* the requests sent to the router: a method, a path of one or two segments,
\* a limit in the query (0: none), with or without a valid token, as a
\* student or as an admin
RouteRequests ==
    [method : {"GET", "POST", "PUT"},
     path : {<<a>> : a \in {Segment.id, Segment.short, Segment.nonhex,
                            Segment.trending, Segment.admin}}
            \cup {<<a, b>> : a \in {Segment.id, Segment.short, Segment.nonhex,
                                    Segment.trending, Segment.admin},
                             b \in {Segment.top, Segment.analytics, Segment.similar,
                                    Segment.generate, Segment.interaction,
                                    Segment.metrics}},
     limit : {0, 5, 101},
     authenticated : BOOLEAN,
     role : {"student", "admin"}]

InitRoute ==
    /\ now = 0
    /\ users = StoreUsers
    /\ exams = StoreExams
    /\ opps = StoreOpportunities
    /\ recs = <<>>
    /\ nextId = 1
    /\ resp = [op |-> "none"]
    /\ runLog = <<>>
    /\ mergeIn = <<>>
    /\ runs = <<>>
    /\ budget = 1

\* one request through the router
HandleRequest(req) ==
    /\ budget > 0
    /\ budget' = budget - 1
    /\ \E answer \in Dispatch(req) :
          resp' = [op |-> "route", request |-> req, answer |-> answer]
    /\ UNCHANGED <<users, exams, opps, recs, nextId, now, runLog, mergeIn, runs>>

NextRoute == \E req \in RouteRequests : HandleRequest(req)

SpecRoute == InitRoute /\ [][NextRoute]_vars

-----------------------------------------------------------------------------
(* Properties of the store *)

\* the step is an interaction request
InteractionStep == budget' < budget /\ now' = now /\ resp'.op = "interaction"

\* C1: after two consecutive generation runs for the same learner, by the
\* endpoint or by the service, no two active records of the learner have the
\* same (user_id, entity_type, entity_id)
C1_NoDuplicateActive ==
    (Len(runLog) >= 2 /\ runLog[Len(runLog)] = runLog[Len(runLog) - 1]) =>
        \A i, j \in DOMAIN recs :
            (/\ i # j
             /\ recs[i].is_active /\ recs[j].is_active
             /\ recs[i].user_id = runLog[Len(runLog)]
             /\ recs[j].user_id = recs[i].user_id
             /\ recs[i].entity_type = recs[j].entity_type) =>
                recs[i].entity_id # recs[j].entity_id

\* C3: every record a list request returns was active and had
\* now < expires_at at the time of the call
C3_ListOnlyLive ==
    (resp.op = "list" /\ resp.status = 200) =>
        \A i \in DOMAIN resp.recommendations :
            /\ resp.recommendations[i].is_active
            /\ resp.at < resp.recommendations[i].expires_at
            /\ resp.recommendations[i].user_id = resp.user

\* a list request returned records while the learner had an active record
\* whose expires_at was not in the future, and that record was left out
C3_Witness ==
    /\ resp.op = "list" /\ resp.status = 200 /\ resp.at = now
    /\ resp.recommendations # <<>>
    /\ \E i \in DOMAIN recs :
          /\ recs[i].user_id = resp.user
          /\ recs[i].is_active
          /\ recs[i].expires_at <= resp.at
          /\ resp.entityType \in {"", recs[i].entity_type}
          /\ \A j \in DOMAIN resp.recommendations :
                resp.recommendations[j]._id # recs[i]._id

\* C4: a flag of user_interaction that is set stays set, and its timestamp
\* keeps the value the first call gave it
C4_TimestampSetOnce ==
    [][\A i \in DOMAIN recs, j \in DOMAIN recs' :
          recs[i]._id = recs'[j]._id =>
             /\ recs[i].user_interaction.viewed =>
                   /\ recs'[j].user_interaction.viewed
                   /\ recs'[j].user_interaction.viewed_at
                         = recs[i].user_interaction.viewed_at
             /\ recs[i].user_interaction.saved =>
                   /\ recs'[j].user_interaction.saved
                   /\ recs'[j].user_interaction.saved_at
                         = recs[i].user_interaction.saved_at
             /\ recs[i].user_interaction.applied =>
                   /\ recs'[j].user_interaction.applied
                   /\ recs'[j].user_interaction.applied_at
                         = recs[i].user_interaction.applied_at]_vars

-----------------------------------------------------------------------------
(* Properties of the scorers *)

\* the candidates the rule-based scorer looks at for the learner
RulePool ==
    IF Learner.role = "school" THEN Take(ActiveExams, RuleExamLimit)
    ELSE Take(ActiveOpportunities, RuleOpportunityLimit)

\* the accumulated score the rule-based scorer gives a candidate of the pool
RulePoolScore(item) ==
    IF Learner.role = "school" THEN RuleExamScore(Learner, item).score
    ELSE RuleOpportunityScore(Learner, item).score

\* the accumulated score the generate handler gives a candidate of the pool
EndpointPoolScore(item) ==
    IF Learner.role = "school" THEN EndpointExamScore(Learner, item)
    ELSE EndpointOpportunityScore(Learner, item)

\* the records of the response for a candidate
Emitted(item) ==
    {i \in DOMAIN resp.recommendations :
        resp.recommendations[i].entity_id = item._id}

\* the candidates content-based scoring evaluates for the learner
ContentPool ==
    IF Learner.role = "school" /\ Len(Learner.saved_exams) > 0
    THEN findSimilarExams(Learner.saved_exams, analyzeUserPreferences(Learner))
    ELSE IF Learner.role = "university" /\ Len(SavedOpportunities(Learner)) > 0
    THEN findSimilarOpportunities(SavedOpportunities(Learner),
                                  analyzeUserPreferences(Learner))
    ELSE <<>>

\* the learner declares no interest and has saved nothing
EmptyProfile ==
    /\ Learner.preferences.interests = <<>>
    /\ Learner.saved_exams = <<>>
    /\ SavedOpportunities(Learner) = <<>>

\* C2: every record a strategy returns has a defined score s with
\* 0 <= s <= 1, whatever the learner and the pool, empty subjects, skills
\* and domain lists included
C2_ScoreInUnitInterval ==
    resp.op = "score" =>
        \A i \in DOMAIN resp.recommendations :
            /\ ~IsNaN(resp.recommendations[i].score)
            /\ ScoreValid(resp.recommendations[i].score)

\* a hybrid run returned records although content-based scoring met a
\* candidate with an empty subjects, skills or domain list, whose similarity
\* is not a number
C2_Witness ==
    /\ resp.op = "score" /\ resp.algorithm = "hybrid"
    /\ resp.recommendations # <<>>
    /\ \E i \in DOMAIN ContentPool :
          /\ \/ ItemHas(ContentPool[i], "subjects") /\ ContentPool[i].subjects = <<>>
             \/ ItemHas(ContentPool[i], "domain") /\ ContentPool[i].domain = <<>>
          /\ IsNaN(calculateContentSimilarity(ContentPool[i],
                                              analyzeUserPreferences(Learner)))

\* C6: the rule-based scorer, in the service and in the generate handler,
\* returns a candidate exactly when its accumulated score is greater than
\* 0.6, once and with the score cut at 1; no record has a score of 0.6 or less
C6_EmitsIffAboveThreshold ==
    /\ (resp.op = "score" /\ resp.algorithm = "rule_based") =>
          /\ \A i \in DOMAIN RulePool :
                /\ Gt(RulePoolScore(RulePool[i]), Frac(6, 10))
                      <=> Emitted(RulePool[i]) # {}
                /\ \A j \in Emitted(RulePool[i]) :
                      resp.recommendations[j].score
                          = MathMin(RulePoolScore(RulePool[i]), One)
          /\ \A j \in DOMAIN resp.recommendations :
                /\ Gt(resp.recommendations[j].score, Frac(6, 10))
                /\ \E i \in DOMAIN RulePool :
                      RulePool[i]._id = resp.recommendations[j].entity_id
    /\ (resp.op = "score" /\ resp.algorithm = "endpoint") =>
          /\ \A i \in DOMAIN RulePool :
                Gt(EndpointPoolScore(RulePool[i]), Frac(6, 10))
                    <=> Emitted(RulePool[i]) # {}
          /\ \A j \in DOMAIN resp.recommendations :
                Gt(resp.recommendations[j].score, Frac(6, 10))

\* a rule-based run dropped a candidate whose score is exactly 0.6 and
\* returned one whose score is above 0.6 and at most 0.7
C6_Witness ==
    /\ resp.op = "score" /\ resp.algorithm = "rule_based"
    /\ \E i \in DOMAIN RulePool :
          /\ RulePoolScore(RulePool[i]) = Frac(6, 10)
          /\ Emitted(RulePool[i]) = {}
    /\ \E i \in DOMAIN RulePool :
          /\ Gt(RulePoolScore(RulePool[i]), Frac(6, 10))
          /\ Geq(Frac(7, 10), RulePoolScore(RulePool[i]))
          /\ Emitted(RulePool[i]) # {}

\* the sum C7 gives for an exam: 0.5, the alignment bonus, the interest
\* term and 0.1 when the exam's stored popularity counter exceeds 100
C7_ExamSum(user, exam) ==
    Plus(Plus(Plus(Frac(1, 2),
        IF /\ user.school_info.stream = "Science"
           /\ \E i \in DOMAIN exam.subjects, j \in DOMAIN scienceSubjects :
                 IncludesIgnoreCase(exam.subjects[i], scienceSubjects[j])
        THEN Frac(3, 10) ELSE Zero),
        IF user.preferences.interests # <<>>
        THEN Times(Frac(Len(ExamMatchingInterests(user, exam)),
                        Len(user.preferences.interests)), Frac(2, 10))
        ELSE Zero),
        IF "application_count" \in DOMAIN exam /\ exam.application_count > 100
        THEN Frac(1, 10) ELSE Zero)

\* C7: for a school learner the accumulated score of every exam is the sum
\* 0.5 + alignment + interest term + popularity bonus, and the score of a
\* returned record is that sum cut at 1
C7_ScoreIsSum ==
    (resp.op = "score" /\ resp.algorithm = "rule_based" /\ Learner.role = "school") =>
        \A i \in DOMAIN RulePool :
            /\ RulePoolScore(RulePool[i]) = C7_ExamSum(Learner, RulePool[i])
            /\ \A j \in Emitted(RulePool[i]) :
                  resp.recommendations[j].score
                      = MathMin(C7_ExamSum(Learner, RulePool[i]), One)

\* C8 as stated: for a learner without interests and without saved items the
\* rule-based and the content-based scorer both return the empty list
C8_BothEmpty ==
    (/\ resp.op = "score"
     /\ resp.algorithm \in {"rule_based", "content_based"}
     /\ EmptyProfile) => resp.recommendations = <<>>

\* C8: for a learner without interests and without saved items the
\* content-based scorer returns the empty list, and the rule-based scorer
\* divides by nothing: it returns exactly the candidates whose other bonuses
\* exceed 0.6 (an exam with a science subject for a Science learner, at 0.8;
\* an internship whose degree and year fit, at 0.9 or more), each with a
\* defined score and without an interest reason
C8_EmptyProfile ==
    (resp.op = "score" /\ EmptyProfile) =>
        /\ resp.algorithm = "content_based" => resp.recommendations = <<>>
        /\ resp.algorithm = "rule_based" =>
              /\ \A j \in DOMAIN resp.recommendations :
                    LET r == resp.recommendations[j] IN
                    /\ ~IsNaN(r.score) /\ Gt(r.score, Frac(6, 10))
                    /\ \A k \in DOMAIN r.recommendation_reasons :
                          r.recommendation_reasons[k].reason
                              \notin {"Aligns with your interests",
                                      "Matches your interests"}
              /\ Learner.role = "school" =>
                    \A i \in DOMAIN RulePool :
                        LET aligned ==
                              /\ Learner.school_info.stream = "Science"
                              /\ \E a \in DOMAIN RulePool[i].subjects,
                                    b \in DOMAIN scienceSubjects :
                                    IncludesIgnoreCase(RulePool[i].subjects[a],
                                                       scienceSubjects[b])
                        IN  /\ aligned <=> Emitted(RulePool[i]) # {}
                            /\ \A j \in Emitted(RulePool[i]) :
                                  resp.recommendations[j].score = Frac(4, 5)
              /\ Learner.role = "university" =>
                    \A i \in DOMAIN RulePool :
                        (/\ RulePool[i].type = "internship"
                         /\ \/ ArrIncludes(RulePool[i].degree_required, AnyDegree)
                            \/ ArrIncludes(RulePool[i].degree_required,
                                           Learner.education.degree)
                         /\ ArrIncludes(RulePool[i].year_of_study,
                                        Learner.education.year))
                          => \E j \in Emitted(RulePool[i]) :
                                Geq(resp.recommendations[j].score, Frac(9, 10))

\* the rule-based scorer returned a record for a learner without interests
\* and without saved items
C8_Witness ==
    /\ resp.op = "score" /\ resp.algorithm = "rule_based"
    /\ EmptyProfile
    /\ resp.recommendations # <<>>

-----------------------------------------------------------------------------
(* Properties of the merge step *)

\* the entries handed to the merge step, in the order of the concatenation
MergeInput == mergeIn.ruleBased \o mergeIn.contentBased \o mergeIn.collaborative

\* the entries of the input with a key, in order
Occurrences(key) == SelectSeq(MergeInput, LAMBDA rec : KeyOf(rec) = key)

\* the keys of the input
InputKeys == {KeyOf(MergeInput[i]) : i \in DOMAIN MergeInput}

\* the positions of the output with a key
Kept(key) ==
    {i \in DOMAIN resp.recommendations : KeyOf(resp.recommendations[i]) = key}

\* the score of a key after folding its occurrences: the first score, then
\* the mean with each later one
RECURSIVE FoldMean(_)
FoldMean(occ) ==
    IF Len(occ) = 1 THEN occ[1].score
    ELSE Times(Plus(FoldMean(SubSeq(occ, 1, Len(occ) - 1)), occ[Len(occ)].score),
               Frac(1, 2))

\* what C9 says of an output entry: for a key with two occurrences the mean,
\* the strategy hybrid and the reasons of the first followed by those of the
\* second; for a key with one occurrence the score and the strategy it had
MergedAsStated(key, entry) ==
    LET occ == Occurrences(key) IN
    /\ Len(occ) = 2 =>
          /\ entry.score = Times(Plus(occ[1].score, occ[2].score), Frac(1, 2))
          /\ entry.algorithm_used = "hybrid"
          /\ entry.recommendation_reasons
                = occ[1].recommendation_reasons \o occ[2].recommendation_reasons
    /\ Len(occ) = 1 =>
          /\ entry.score = occ[1].score
          /\ entry.algorithm_used = occ[1].algorithm_used

\* C9 as stated: a key with exactly two occurrences has a single entry in the
\* output, with the mean, hybrid and both reasons; an entry whose key occurs
\* once keeps its score and strategy
C9_MergedEntryInOutput ==
    resp.op = "merge" =>
        \A key \in InputKeys :
            /\ Len(Occurrences(key)) = 2 => Cardinality(Kept(key)) = 1
            /\ \A i \in Kept(key) : MergedAsStated(key, resp.recommendations[i])

\* C9: the output holds at most one entry for a key, and holds one when the
\* input has no more keys than the cap; the entry of a key with exactly two
\* occurrences has the mean, hybrid and both reasons, the entry of a key with
\* one occurrence its score and strategy
C9_MergedEntry ==
    resp.op = "merge" =>
        \A key \in InputKeys :
            /\ Cardinality(Kept(key)) <= 1
            /\ Cardinality(InputKeys) <= HybridLimit => Cardinality(Kept(key)) = 1
            /\ \A i \in Kept(key) : MergedAsStated(key, resp.recommendations[i])

\* the output holds the entry of a key with two occurrences of different
\* scores and the entry of a key with one occurrence
C9_Witness ==
    /\ resp.op = "merge"
    /\ \E key \in InputKeys :
          /\ Len(Occurrences(key)) = 2
          /\ Occurrences(key)[1].score # Occurrences(key)[2].score
          /\ Kept(key) # {}
    /\ \E key \in InputKeys : Len(Occurrences(key)) = 1 /\ Kept(key) # {}

\* C10: the output has at most HybridLimit entries (50 in the code), no key
\* twice, scores that do not increase, and every key left out has a merged
\* score no greater than the score of any entry kept
C10_CappedSortedUnique ==
    resp.op = "merge" =>
        /\ Len(resp.recommendations) <= HybridLimit
        /\ \A i, j \in DOMAIN resp.recommendations :
              /\ i # j => KeyOf(resp.recommendations[i]) # KeyOf(resp.recommendations[j])
              /\ i < j => Geq(resp.recommendations[i].score,
                              resp.recommendations[j].score)
        /\ \A key \in InputKeys :
              Kept(key) = {} =>
                 \A i \in DOMAIN resp.recommendations :
                    Geq(resp.recommendations[i].score, FoldMean(Occurrences(key)))
        /\ \A i \in DOMAIN resp.recommendations :
              KeyOf(resp.recommendations[i]) \in InputKeys

\* the output is full, holds a merged entry behind an entry of a greater
\* score that came later in the input, and leaves a key out
C10_Witness ==
    /\ resp.op = "merge"
    /\ Len(resp.recommendations) = HybridLimit
    /\ \E key \in InputKeys : Kept(key) = {}
    /\ \E i \in DOMAIN resp.recommendations :
          resp.recommendations[i].algorithm_used = "hybrid"
    /\ \E i, j \in DOMAIN resp.recommendations :
          /\ i < j
          /\ Gt(resp.recommendations[i].score, resp.recommendations[j].score)
          /\ \E a, b \in DOMAIN MergeInput :
                /\ a < b
                /\ \A c \in DOMAIN MergeInput :
                      KeyOf(MergeInput[c]) = KeyOf(MergeInput[a]) => a <= c
                /\ \A c \in DOMAIN MergeInput :
                      KeyOf(MergeInput[c]) = KeyOf(MergeInput[b]) => b <= c
                /\ KeyOf(MergeInput[a]) = KeyOf(resp.recommendations[j])
                /\ KeyOf(MergeInput[b]) = KeyOf(resp.recommendations[i])

\* the place of a key's first occurrence in the input
FirstIndex(key) ==
    CHOOSE i \in DOMAIN MergeInput :
        /\ KeyOf(MergeInput[i]) = key
        /\ \A j \in DOMAIN MergeInput : KeyOf(MergeInput[j]) = key => i <= j

C12_TiesKeepFirstSeenOrder ==
    resp.op = "merge" =>
        \A i, j \in DOMAIN resp.recommendations :
            (i < j /\ resp.recommendations[i].score = resp.recommendations[j].score)
                => FirstIndex(KeyOf(resp.recommendations[i]))
                       < FirstIndex(KeyOf(resp.recommendations[j]))

\* the output holds two entries of equal score, the second one merged from
\* entries of different lists, and a key of the same score is cut
C12_Witness ==
    /\ resp.op = "merge"
    /\ \E i, j \in DOMAIN resp.recommendations :
          /\ i < j
          /\ resp.recommendations[i].score = resp.recommendations[j].score
          /\ resp.recommendations[j].algorithm_used = "hybrid"
    /\ \E key \in InputKeys :
          /\ Kept(key) = {}
          /\ FoldMean(Occurrences(key)) = resp.recommendations[1].score

-----------------------------------------------------------------------------
(* Properties of the list requests *)

\* score descending and, among equal scores, creation time descending
NewestFirstAmongEqual(a, b) ==
    \/ Gt(a.score, b.score)
    \/ a.score = b.score /\ a.createdAt >= b.createdAt

\* the stored records a request of the learner is to choose from: active,
\* unexpired, of the kind asked for, and not viewed when only those are asked
Eligible(userId, entityType, unseen) ==
    {recs[i] : i \in {j \in DOMAIN recs :
        /\ recs[j].user_id = userId
        /\ recs[j].is_active
        /\ now < recs[j].expires_at
        /\ entityType \in {"", recs[j].entity_type}
        /\ unseen => ~recs[j].user_interaction.viewed}}

\* a response holds the first `limit` eligible records in the order score
\* descending, then creation time descending
FirstInStatedOrder(out, eligible, limit) ==
    /\ Len(out) = IF Cardinality(eligible) < limit THEN Cardinality(eligible) ELSE limit
    /\ \A i \in DOMAIN out : out[i] \in eligible
    /\ \A i, j \in DOMAIN out : i < j => out[i] # out[j] /\ NewestFirstAmongEqual(out[i], out[j])
    /\ \A r \in eligible :
          (\A i \in DOMAIN out : out[i] # r) =>
              \A i \in DOMAIN out : NewestFirstAmongEqual(out[i], r)

\* C13: a list request returns at most limit records of the learner, all
\* active and unexpired and of the kind asked for, ordered by score
\* descending and, among equal scores, newest first
C13_ListOrder ==
    (resp.op = "list" /\ resp.status = 200) =>
        FirstInStatedOrder(resp.recommendations,
                           Eligible(resp.user, resp.entityType, FALSE),
                           IF resp.limit = 0 THEN DefaultListLimit ELSE resp.limit)

\* C14: a request for the unseen top returns what the list request without
\* a kind returns once restricted to the records that are not viewed, in the
\* same order: score descending, then newest first
C14_TopIsListOfUnseen ==
    (resp.op = "top" /\ resp.status = 200) =>
        FirstInStatedOrder(resp.recommendations,
                           Eligible(resp.user, "", TRUE),
                           IF resp.limit = 0 THEN TopListLimit ELSE resp.limit)

-----------------------------------------------------------------------------
(* Properties of the generation runs *)

\* the step is a generation run that succeeded, by the endpoint or by the
\* service
SuccessfulRunStep ==
    /\ budget' < budget
    /\ now' = now
    /\ \/ resp'.op = "generate" /\ resp'.status = 200
       \/ resp'.op = "service" /\ resp'.status = "ok"

\* C15: after a successful generation run, through the endpoint or through
\* the service, every record of the learner that is still served (active and
\* unexpired) was inserted by that run
C15_ServedAreOfTheRun ==
    [][SuccessfulRunStep =>
          \A i \in DOMAIN recs' :
              (/\ recs'[i].user_id = resp'.user
               /\ recs'[i].is_active
               /\ now' < recs'[i].expires_at) => recs'[i]._id >= nextId]_vars

\* the list of strategy k that a hybrid run is to merge when the scorers in
\* resp.failed contribute nothing
ListOfSurviving(k) ==
    IF k \in resp.failed THEN <<>>
    ELSE <<mergeIn.ruleBased, mergeIn.contentBased, mergeIn.collaborative>>[k]

\* C16: a hybrid run in which exactly one of the three scorers fails
\* completes, and its output is the merge of the other two lists, the failed
\* strategy contributing the empty list
C16_OneFailureIsEmptyList ==
    (resp.op \in {"merge", "rejected"} /\ Cardinality(resp.failed) = 1) =>
        /\ resp.op = "merge"
        /\ resp.recommendations =
              HybridMerge(ListOfSurviving(1), ListOfSurviving(2), ListOfSurviving(3))

\* the run p is the only one in flight for its learner
AloneForLearner(p) ==
    \A q \in DOMAIN runs : q # p => runs[q].user # runs[p].user

\* C17: when the insert step of an endpoint run fails after the delete was
\* applied, the learner who was served recommendations before the run is
\* still served them after
C17_FailedInsertKeepsServed ==
    [][\A p \in DOMAIN runs :
          (/\ runs[p].entry = "endpoint"
           /\ runs[p].pc = "insert"
           /\ runs'[p].pc = "failed"
           /\ AloneForLearner(p)) =>
              runs[p].served_before \subseteq ServedIn(recs', runs[p].user)]_vars

\* the _ids that the insert step of run p gave to its batch
InsertedBy(p) == runs[p].first .. (runs[p].first + Len(runs[p].batch) - 1)

\* C18: once two concurrent endpoint runs for the same learner have both
\* finished, whatever the interleaving of their steps, the learner's active
\* records hold no (learner, offering) twice and are the batch of exactly one
\* of the runs
C18_RunsSerialized ==
    \A p, q \in DOMAIN runs :
        (/\ p # q
         /\ runs[p].user = runs[q].user
         /\ \A r \in DOMAIN runs :
               runs[r].user = runs[p].user =>
                   runs[r].entry = "endpoint" /\ runs[r].pc = "done") =>
            /\ \A i, j \in DOMAIN recs :
                  (/\ i # j
                   /\ recs[i].user_id = runs[p].user
                   /\ recs[j].user_id = runs[p].user
                   /\ recs[i].is_active /\ recs[j].is_active
                   /\ recs[i].entity_type = recs[j].entity_type) =>
                      recs[i].entity_id # recs[j].entity_id
            /\ \E r \in {p, q} : ServedIn(recs, runs[p].user) = InsertedBy(r)

\* the records of the collection that belong to other learners
RecordsOfOthers(collection, userId) ==
    SelectSeq(collection, LAMBDA r : r.user_id # userId)

\* C19: every step of a generation run for a learner, by the endpoint or by
\* the service and interleaved in any way with runs for other learners,
\* leaves the records of every other learner as they were
C19_OtherLearnersUntouched ==
    [][\A p \in DOMAIN runs :
          runs'[p] # runs[p] =>
              RecordsOfOthers(recs', runs[p].user) =
                  RecordsOfOthers(recs, runs[p].user)]_vars

\* an endpoint run for u1 has deleted and inserted while a run for u4 has
\* inserted too, and the record u4 had at the start is still stored
C19_Witness ==
    /\ \E p \in DOMAIN runs :
          /\ runs[p].user = "u1" /\ runs[p].entry = "endpoint"
          /\ runs[p].pc = "done" /\ runs[p].batch # <<>>
          /\ runs[p].served_before # {}
    /\ \E q \in DOMAIN runs :
          /\ runs[q].user = "u4" /\ runs[q].pc = "done" /\ runs[q].batch # <<>>
    /\ \E i \in DOMAIN recs : recs[i] = OtherSeedDocument

-----------------------------------------------------------------------------
(* Properties of the router *)

\* C20: GET /recommendations/trending, sent with a valid token, reaches the
\* trending handler and is answered with active offerings; the route
\* /:userId declared before it does not capture it
C20_TrendingReachesItsHandler ==
    (/\ resp.op = "route"
     /\ resp.request.method = "GET"
     /\ resp.request.path = <<Segment.trending>>
     /\ resp.request.authenticated) =>
        /\ resp.answer.handler = "getTrendingRecommendations"
        /\ resp.answer.status = 200

-----------------------------------------------------------------------------
(* Properties of the requests for a learner that is not stored *)

\* no stored user has the id
UnknownLearner(userId) == \A i \in DOMAIN users : users[i]._id # userId

\* C21: a generation request, through the endpoint or through the service,
\* for a learner id that no user has fails with not found (404, or the
\* service's error) and leaves the Recommendation collection as it was:
\* nothing is deleted, retired or inserted
C21_UnknownLearnerChangesNothing ==
    [][(/\ budget' < budget
        /\ now' = now
        /\ resp'.op \in {"generate", "service"}
        /\ UnknownLearner(resp'.user)) =>
            /\ recs' = recs
            /\ nextId' = nextId
            /\ resp'.op = "generate" => resp'.status = 404
            /\ resp'.op = "service" => resp'.status = "error"]_vars

\* a generation request for an unknown learner was answered while a record
\* of an earlier run is stored
C21_Witness ==
    /\ resp.op \in {"generate", "service"}
    /\ UnknownLearner(resp.user)
    /\ recs # <<>>

-----------------------------------------------------------------------------
(* Properties of the interaction requests *)

\* the record with the flag of the kind and the timestamp of the kind taken
\* from another record
WithKindOf(r, other, kind) ==
    [r EXCEPT !.user_interaction =
        IF kind = "viewed"
        THEN [@ EXCEPT !.viewed = other.user_interaction.viewed,
                       !.viewed_at = other.user_interaction.viewed_at]
        ELSE IF kind = "saved"
        THEN [@ EXCEPT !.saved = other.user_interaction.saved,
                       !.saved_at = other.user_interaction.saved_at]
        ELSE [@ EXCEPT !.applied = other.user_interaction.applied,
                       !.applied_at = other.user_interaction.applied_at]]

-----------------------------------------------------------------------------
(* Properties of the content-based and the neighbor-based scorer *)

\* the active offerings of the kind the scorers propose to the learner
Catalog == IF Learner.role = "school" THEN ActiveExams ELSE ActiveOpportunities

\* the offerings the learner has saved, of the kind proposed to the learner
SavedByLearner ==
    IF Learner.role = "school" THEN Learner.saved_exams ELSE SavedOpportunities(Learner)

\* C23: the content-based scorer returns an active offering exactly when
\* the learner has not saved it and its similarity is greater than 0.7; it
\* returns no saved offering, and nothing for a learner who saved nothing
C23_ContentEmitsIffSimilar ==
    (resp.op = "score" /\ resp.algorithm = "content_based") =>
        /\ \A i \in DOMAIN Catalog :
              Emitted(Catalog[i]) # {} <=>
                  /\ ~ArrIncludes(SavedByLearner, Catalog[i]._id)
                  /\ Gt(calculateContentSimilarity(Catalog[i],
                                                   analyzeUserPreferences(Learner)),
                        Frac(7, 10))
        /\ \A j \in DOMAIN resp.recommendations :
              ~ArrIncludes(SavedByLearner, resp.recommendations[j].entity_id)
        /\ SavedByLearner = <<>> => resp.recommendations = <<>>

\* C23, over the offerings the scorer's query fetches: the content-based
\* scorer returns an active offering exactly when findSimilarExams or
\* findSimilarOpportunities fetches it (not saved, and sharing with the saved
\* offerings a subject and the exam type, or a skill and a domain) and its
\* similarity is greater than 0.7; it returns no saved offering, and nothing
\* for a learner who saved nothing
C23_EmitsIffSimilarAndFetched ==
    (resp.op = "score" /\ resp.algorithm = "content_based") =>
        /\ \A i \in DOMAIN Catalog :
              Emitted(Catalog[i]) # {} <=>
                  /\ \E k \in DOMAIN ContentPool : ContentPool[k] = Catalog[i]
                  /\ ~ArrIncludes(SavedByLearner, Catalog[i]._id)
                  /\ Gt(calculateContentSimilarity(Catalog[i],
                                                   analyzeUserPreferences(Learner)),
                        Frac(7, 10))
        /\ \A j \in DOMAIN resp.recommendations :
              ~ArrIncludes(SavedByLearner, resp.recommendations[j].entity_id)
        /\ SavedByLearner = <<>> => resp.recommendations = <<>>

\* a content-based run returned an offering, left out a saved offering of
\* similarity above 0.7, and left out an offering that is not saved and whose
\* similarity is not above 0.7
C23_Witness ==
    /\ resp.op = "score" /\ resp.algorithm = "content_based"
    /\ resp.recommendations # <<>>
    /\ \E i \in DOMAIN Catalog :
          /\ ArrIncludes(SavedByLearner, Catalog[i]._id)
          /\ Gt(calculateContentSimilarity(Catalog[i], analyzeUserPreferences(Learner)),
                Frac(7, 10))
          /\ Emitted(Catalog[i]) = {}
    /\ \E i \in DOMAIN Catalog :
          /\ ~ArrIncludes(SavedByLearner, Catalog[i]._id)
          /\ ~Gt(calculateContentSimilarity(Catalog[i], analyzeUserPreferences(Learner)),
                 Frac(7, 10))
          /\ Emitted(Catalog[i]) = {}

\* the candidate has the list facet: the path is defined and the list is not
\* empty
HasFacet(item, path) == ItemHas(item, path) /\ item[path] # <<>>

\* |facet \cap preferred| / |facet|
OverlapRatio(facet, preferred) ==
    Frac(Cardinality({i \in DOMAIN facet : facet[i] \in preferred}), Len(facet))

\* the facets of C24 that the candidate has, each with its weight and its
\* overlap ratio; a company or an organizer is a facet of ratio 1 when it is
\* among the preferred ones and of ratio 0 when it is not
StatedFacets(item, preferences) ==
    (IF HasFacet(item, "subjects")
     THEN {[facet |-> "subjects", weight |-> Frac(4, 10),
            ratio |-> OverlapRatio(item.subjects, preferences.subjects)]} ELSE {})
    \cup (IF HasFacet(item, "skills_required")
          THEN {[facet |-> "skills", weight |-> Frac(3, 10),
                 ratio |-> OverlapRatio(item.skills_required, preferences.skills)]}
          ELSE {})
    \cup (IF HasFacet(item, "domain")
          THEN {[facet |-> "domain", weight |-> Frac(2, 10),
                 ratio |-> OverlapRatio(item.domain, preferences.domains)]} ELSE {})
    \cup (IF TruthyString(item, "company", SchemaOf(item))
          THEN {[facet |-> "company", weight |-> Frac(1, 10),
                 ratio |-> IF item.company \in preferences.companies
                           THEN One ELSE Zero]} ELSE {})
    \cup (IF TruthyString(item, "organizer", SchemaOf(item))
          THEN {[facet |-> "organizer", weight |-> Frac(1, 10),
                 ratio |-> IF item.organizer \in preferences.organizers
                           THEN One ELSE Zero]} ELSE {})

\* the sum of f over a set of facets
RECURSIVE SumOver(_, _)
SumOver(facets, weighted) ==
    IF facets = {} THEN Zero
    ELSE LET f == CHOOSE x \in facets : TRUE
         IN  Plus(IF weighted THEN Times(f.ratio, f.weight) ELSE f.weight,
                  SumOver(facets \ {f}, weighted))

\* the similarity as C24 states it
StatedSimilarity(item, preferences) ==
    LET facets == StatedFacets(item, preferences) IN
    IF facets = {} THEN Zero
    ELSE Over(SumOver(facets, TRUE), SumOver(facets, FALSE))

\* C24: the similarity of every candidate the content-based scorer
\* evaluates is the weighted sum of the overlap ratios of the facets the
\* candidate has, divided by the sum of the weights of those facets (a
\* company or organizer that is not among the preferred ones included), and
\* 0 when the candidate has no facet
C24_SimilarityAsStated ==
    (resp.op = "score" /\ resp.algorithm = "content_based") =>
        \A k \in DOMAIN ContentPool :
            calculateContentSimilarity(ContentPool[k], analyzeUserPreferences(Learner))
                = StatedSimilarity(ContentPool[k], analyzeUserPreferences(Learner))

\* the stored offerings of the kind the scorers propose to the learner
Offerings == IF Learner.role = "school" THEN exams ELSE opps

\* the saved list of a user, of the kind proposed to the learner
SavedOfKind(user) ==
    IF Learner.role = "school" THEN user.saved_exams ELSE SavedOpportunities(user)

\* the neighbors of the learner that have saved the offering
NeighborsWhoSaved(id) ==
    {i \in DOMAIN SimilarUsers(Learner) :
        ArrIncludes(SavedOfKind(SimilarUsers(Learner)[i]), id)}

\* C25: the neighbor-based scorer returns an offering, exam or opportunity,
\* exactly when at least 2 distinct neighbors have saved it and the learner
\* has not saved it, with the score min(neighbors who saved it / neighbors,
\* 1); the learner is not among the neighbors
C25_NeighborEmitsIffPopular ==
    (resp.op = "score" /\ resp.algorithm = "collaborative_filtering") =>
        /\ \A i \in DOMAIN SimilarUsers(Learner) :
              SimilarUsers(Learner)[i]._id # Learner._id
        /\ \A k \in DOMAIN Offerings :
              /\ Emitted(Offerings[k]) # {} <=>
                    /\ Cardinality(NeighborsWhoSaved(Offerings[k]._id))
                           >= MinNeighborCount
                    /\ ~ArrIncludes(SavedOfKind(Learner), Offerings[k]._id)
              /\ \A j \in Emitted(Offerings[k]) :
                    resp.recommendations[j].score =
                        MathMin(Frac(Cardinality(NeighborsWhoSaved(Offerings[k]._id)),
                                     Len(SimilarUsers(Learner))), One)

-----------------------------------------------------------------------------
(* Properties of the generate endpoint *)

\* the records of the hybrid merge for the user whose offering the
\* content-based or the neighbor-based scorer returned
MergedFromOtherStrategies(user) ==
    {rec \in Range(generateHybridRecommendations(user)) :
        \E other \in Range(generateContentBasedRecommendations(user))
                     \cup Range(generateCollaborativeFilteringRecommendations(user)) :
            KeyOf(other) = KeyOf(rec)}

\* C26: POST /recommendations/:userId/generate stores the output of the
\* hybrid merge over the three strategies and reports its size: after the
\* run every offering of the merge that the content-based or the
\* neighbor-based scorer returned is among the learner's active records, and
\* the count in the answer is the number of the learner's active records
C26_EndpointStoresTheMerge ==
    [][(SuccessfulRunStep /\ resp'.op = "generate") =>
          /\ \A rec \in MergedFromOtherStrategies(users[FindUser(resp'.user)]) :
                \E i \in DOMAIN recs' :
                    /\ recs'[i].user_id = resp'.user
                    /\ recs'[i].is_active
                    /\ recs'[i].entity_type = rec.entity_type
                    /\ recs'[i].entity_id = rec.entity_id
          /\ resp'.recommendations_generated =
                Cardinality({i \in DOMAIN recs' :
                    recs'[i].user_id = resp'.user /\ recs'[i].is_active})]_vars

-----------------------------------------------------------------------------
(* Properties of the merge of a key that all three strategies return *)

\* ((a + b) / 2 + c) / 2
PairwiseMeans(a, b, c) ==
    Times(Plus(Times(Plus(a, b), Frac(1, 2)), c), Frac(1, 2))

\* C27: the merged score of a key that the rule-based, the content-based and
\* the collaborative list all hold, with scores s1, s2 and s3, is the fold of
\* pairwise means ((s1 + s2) / 2 + s3) / 2, and lies between the least and
\* the greatest of the three scores
C27_ThreeWayFold ==
    resp.op = "merge" =>
        \A key \in InputKeys :
            Len(Occurrences(key)) = 3 =>
                \A i \in Kept(key) :
                    LET s1 == Occurrences(key)[1].score
                        s2 == Occurrences(key)[2].score
                        s3 == Occurrences(key)[3].score
                        merged == resp.recommendations[i].score
                    IN  /\ merged = PairwiseMeans(s1, s2, s3)
                        /\ \E s \in {s1, s2, s3} : Geq(merged, s)
                        /\ \E s \in {s1, s2, s3} : Geq(s, merged)

\* the output holds a key of all three lists whose merged score is not the
\* mean of the three scores and is not the fold taken with the lists in the
\* order collaborative, content-based, rule-based
C27_Witness ==
    /\ resp.op = "merge"
    /\ \E key \in InputKeys :
          /\ Len(Occurrences(key)) = 3
          /\ Occurrences(key)[1].algorithm_used = "rule_based"
          /\ Occurrences(key)[2].algorithm_used = "content_based"
          /\ Occurrences(key)[3].algorithm_used = "collaborative_filtering"
          /\ \E i \in Kept(key) :
                LET s1 == Occurrences(key)[1].score
                    s2 == Occurrences(key)[2].score
                    s3 == Occurrences(key)[3].score
                    merged == resp.recommendations[i].score
                IN  /\ merged # Times(Plus(Plus(s1, s2), s3), Frac(1, 3))
                    /\ merged # PairwiseMeans(s3, s2, s1)


-----------------------------------------------------------------------------
(* C28: the kind of the records follows the learner's role *)

KindForRole(user) == IF user.role = "school" THEN "exam" ELSE "opportunity"

\* the neighbors of the learner who saved an offering of the other kind
NeighborsWithOtherKind ==
    {i \in DOMAIN users :
        /\ \E j \in DOMAIN SimilarUsers(Learner) : SimilarUsers(Learner)[j] = users[i]
        /\ IF Learner.role = "school"
           THEN Populate(SavedOpportunities(users[i]), opps) # <<>>
           ELSE Populate(users[i].saved_exams, exams) # <<>>}

\* C28: every record a scorer (rule-based, content-based, neighbor-based, the
\* merge of the three, or the endpoint's inline scorer) produces for a school
\* learner is of type exam, and every record produced for a learner of
\* another role is of type opportunity; so the list one run stores never
\* holds both kinds
C28_KindFollowsRole ==
    resp.op = "score" =>
        /\ \A j \in DOMAIN resp.recommendations :
              /\ resp.recommendations[j].entity_type = KindForRole(Learner)
              /\ resp.recommendations[j].user_id = Learner._id
        /\ \A j, k \in DOMAIN resp.recommendations :
              resp.recommendations[j].entity_type = resp.recommendations[k].entity_type

\* the neighbor scorer has emitted for a learner two of whose neighbors saved
\* an offering of the other kind
C28_Witness ==
    /\ resp.op = "score"
    /\ resp.algorithm = "collaborative_filtering"
    /\ resp.recommendations # <<>>
    /\ Cardinality(NeighborsWithOtherKind) >= MinNeighborCount

-----------------------------------------------------------------------------
(* C29: the service's rule-based score against the generate handler's *)

\* the candidates the generate handler looks at for the learner
EndpointPool ==
    IF Learner.role = "school" THEN Take(ActiveExams, EndpointExamLimit)
    ELSE Take(ActiveOpportunities, EndpointOpportunityLimit)

\* the candidates both scorers look at
CommonPool ==
    SelectSeq(EndpointPool, LAMBDA item :
        \E i \in DOMAIN RulePool : RulePool[i] = item)

\* C29: for the learner and any candidate both scorers look at, the score
\* the service's rule-based scorer accumulates before the clamp is at least
\* the score the generate handler's inline scorer accumulates; and every such
\* candidate the handler emits is emitted by the service's scorer too
C29_ServiceScoreAtLeastEndpoint ==
    /\ \A i \in DOMAIN CommonPool :
          Geq(RulePoolScore(CommonPool[i]), EndpointPoolScore(CommonPool[i]))
    /\ (resp.op = "score" /\ resp.algorithm = "endpoint") =>
          \A i \in DOMAIN CommonPool :
              Emitted(CommonPool[i]) # {} =>
                  \E k \in DOMAIN generateRuleBasedRecommendations(Learner) :
                      KeyOf(generateRuleBasedRecommendations(Learner)[k])
                          = <<KindForRole(Learner), CommonPool[i]._id>>

\* the handler has emitted a candidate, and the service's scorer gives one
\* candidate strictly more than the handler does and emits a candidate the
\* handler leaves out
C29_Witness ==
    /\ resp.op = "score"
    /\ resp.algorithm = "endpoint"
    /\ resp.recommendations # <<>>
    /\ \E i \in DOMAIN CommonPool :
          /\ Gt(RulePoolScore(CommonPool[i]), EndpointPoolScore(CommonPool[i]))
          /\ RuleEmits(RulePoolScore(CommonPool[i]))
          /\ Emitted(CommonPool[i]) = {}

-----------------------------------------------------------------------------
(* C30: a run through the generate endpoint resets the interaction state *)

NoInteraction ==
    [viewed |-> FALSE, saved |-> FALSE, applied |-> FALSE,
     viewed_at |-> NoDate, saved_at |-> NoDate, applied_at |-> NoDate]

Touched(r) ==
    \/ r.user_interaction.viewed
    \/ r.user_interaction.saved
    \/ r.user_interaction.applied

\* the step is a run of the generate endpoint that succeeded
EndpointRunStep ==
    budget' < budget /\ now' = now /\ resp'.op = "generate" /\ resp'.status = 200

=============================================================================
